---------------------------- MODULE Spec2Model ----------------------------
(***************************************************************************)
(* A model of the spectral matching and preprocessing engine of RamanLab   *)
(* (src/raman_analysis_app_qt6.py, class RamanAnalysisAppQt6).             *)
(*                                                                         *)
(* Conventions.                                                            *)
(*  - A Python str is a sequence of one-character strings, so that lower,  *)
(*    upper, strip, split, "in" and re.findall are computed, not assumed.  *)
(*    The empty str and a missing dict key are both <<>> wherever the code *)
(*    reads the key with .get(key, '') or tests its truthiness.            *)
(*  - Wavenumbers, tolerances and intensities are integers (cm-1, counts). *)
(*  - Python sequences are 0-based, TLA+ sequences 1-based: a Python index *)
(*    p addresses element p + 1 of the modelled sequence.                  *)
(***************************************************************************)
EXTENDS Integers, Sequences, FiniteSets, TLC

VARIABLES
    \* ---- MetadataFilter under test (spectrum_passes_filters) ------------
    f_name,        \* the name argument
    f_data,        \* the data argument: one database entry
    f_filters,     \* the filters argument
    f_pc,          \* "call" before the call, "done" after it
    f_result,      \* the value returned (FALSE before the call)
    \* ---- RamanAnalysisAppQt6: the spectrum and its preprocessing --------
    current_wavenumbers,        \* None or the loaded wavenumber array
    current_intensities,        \* None or the loaded intensity array
    processed_intensities,      \* None or the processed intensity array
    processed_shares_current,   \* processed_intensities is the array current_intensities
    detected_peaks,             \* None or the array of peak indices (0-based)
    background_preview_active,
    smoothing_preview_active,
    preview_background,         \* None or an array
    preview_corrected,          \* None or an array
    preview_smoothed,           \* None or an array
    bg_method_combo,            \* currentText() of the background method
    p_slider,                   \* ALS asymmetry slider (p * 1000)
    height_slider,              \* peak height, percent of the maximum
    distance_slider,            \* peak distance, points
    prominence_slider,          \* peak prominence, percent of the maximum
    sg_window_spin,             \* Savitzky-Golay window length
    sg_order_spin,              \* Savitzky-Golay polynomial order
    last_handler,               \* the handler that ran last, "" before the first
    last_error,                 \* the exception it raised, "" if none
    handled,                    \* number of handler calls so far
    \* ---- RamanAnalysisAppQt6: database search ---------------------------
    database,                   \* raman_db.database: (name, entry) in insertion order
    search_results,             \* what the last search displayed
    fastdtw_available,          \* whether "from fastdtw import fastdtw" succeeds
    \* ---- RamanSpectra (tkinter_legacy): the calls under test ------------
    als_call,                   \* baseline_als: the arguments and the outcome
    legacy_search,              \* search_match: the object, the arguments, the outcome
    resolver_call,              \* match_mineral_name: the taxonomy, the arguments, the outcome
    legacy_store,               \* the object add_to_database and remove_from_database act on
    \* ---- RamanAnalysisAppQt6: what runs beside a handler ----------------
    search_call,                \* a search stopped in QApplication.processEvents()
    import_worker               \* the RamanMapImportWorker thread and its signals

filter_vars == <<f_name, f_data, f_filters, f_pc, f_result>>

spectrum_vars == <<current_wavenumbers, current_intensities, processed_intensities,
                   processed_shares_current>>

preview_vars == <<background_preview_active, smoothing_preview_active,
                  preview_background, preview_corrected, preview_smoothed>>

widget_vars == <<bg_method_combo, p_slider, height_slider, distance_slider,
                 prominence_slider, sg_window_spin, sg_order_spin>>

app_vars == <<spectrum_vars, detected_peaks, preview_vars, widget_vars,
              last_handler, last_error, handled>>

search_vars == <<database, search_results, fastdtw_available>>

legacy_vars == <<als_call, legacy_search, resolver_call, legacy_store>>

event_vars == <<search_call, import_worker>>

vars == <<filter_vars, app_vars, search_vars, legacy_vars, event_vars>>

-----------------------------------------------------------------------------
(***************************************************************************)
(* Python str operations.                                                  *)
(***************************************************************************)

UpperAlphabet == <<"A","B","C","D","E","F","G","H","I","J","K","L","M",
                   "N","O","P","Q","R","S","T","U","V","W","X","Y","Z">>

LowerAlphabet == <<"a","b","c","d","e","f","g","h","i","j","k","l","m",
                   "n","o","p","q","r","s","t","u","v","w","x","y","z">>

Digits == <<"0","1","2","3","4","5","6","7","8","9">>

IsUpperChar(c) == \E i \in 1..Len(UpperAlphabet) : UpperAlphabet[i] = c

IsLowerChar(c) == \E i \in 1..Len(LowerAlphabet) : LowerAlphabet[i] = c

IsDigitChar(c) == \E i \in 1..Len(Digits) : Digits[i] = c

LowerChar(c) ==
    IF IsUpperChar(c)
    THEN LowerAlphabet[CHOOSE i \in 1..Len(UpperAlphabet) : UpperAlphabet[i] = c]
    ELSE c

UpperChar(c) ==
    IF IsLowerChar(c)
    THEN UpperAlphabet[CHOOSE i \in 1..Len(LowerAlphabet) : LowerAlphabet[i] = c]
    ELSE c

\* str.lower()
lower(s) == [i \in 1..Len(s) |-> LowerChar(s[i])]

\* str.upper()
upper(s) == [i \in 1..Len(s) |-> UpperChar(s[i])]

\* sub in s
StrContains(sub, s) ==
    \E i \in 0..(Len(s) - Len(sub)) : SubSeq(s, i + 1, i + Len(sub)) = sub

\* str.strip()
RECURSIVE strip(_)
strip(s) ==
    IF s = <<>> THEN s
    ELSE IF Head(s) = " " THEN strip(Tail(s))
    ELSE IF s[Len(s)] = " " THEN strip(SubSeq(s, 1, Len(s) - 1))
    ELSE s

\* str.split(sep) for a one-character separator
RECURSIVE split(_, _)
split(s, sep) ==
    IF \A i \in 1..Len(s) : s[i] # sep THEN <<s>>
    ELSE LET i == CHOOSE k \in 1..Len(s) :
                      s[k] = sep /\ \A j \in 1..(k - 1) : s[j] # sep
         IN  <<SubSeq(s, 1, i - 1)>> \o split(SubSeq(s, i + 1, Len(s)), sep)

\* re.findall(r'[A-Z][a-z]?', s)
RECURSIVE FindElementTokens(_)
FindElementTokens(s) ==
    IF s = <<>> THEN <<>>
    ELSE IF IsUpperChar(s[1])
         THEN IF Len(s) >= 2 /\ IsLowerChar(s[2])
              THEN <<SubSeq(s, 1, 2)>> \o FindElementTokens(SubSeq(s, 3, Len(s)))
              ELSE <<SubSeq(s, 1, 1)>> \o FindElementTokens(Tail(s))
         ELSE FindElementTokens(Tail(s))

SeqToSet(q) == {q[i] : i \in 1..Len(q)}

Abs(x) == IF x < 0 THEN -x ELSE x

-----------------------------------------------------------------------------
(***************************************************************************)
(* MetadataFilter: RamanAnalysisAppQt6.spectrum_passes_filters.            *)
(*                                                                         *)
(* A database entry is a record                                            *)
(*   [wavenumbers, intensities : sequences of integers,                    *)
(*    metadata : MetadataKeys -> str,                                      *)
(*    peaks : [kind, items, nones]]                                        *)
(* where peaks.kind tells the Python shape of data['peaks']:               *)
(*   "missing"             no 'peaks' key (data.get('peaks', []) is [])    *)
(*   "None"                the value None                                  *)
(*   "list"                a list or tuple; items are its numbers and      *)
(*                         nones the positions holding None                *)
(*   "dict_no_wavenumbers" a dict whose "wavenumbers" is missing or None   *)
(*   "dict_array"          a dict whose "wavenumbers" is a numpy array     *)
(*   "dict_list"           a dict whose "wavenumbers" is a Python list     *)
(* A filter set is a record whose field keys is the set of keys the dict   *)
(* holds; the other fields are the values of the keys that are held.       *)
(***************************************************************************)

MetadataKeys == {"CHEMICAL FAMILY", "Chemical Family", "CHEMICAL_FAMILY",
                 "HEY CLASSIFICATION", "HEY_CLASSIFICATION",
                 "CHEMISTRY ELEMENTS", "Chemistry Elements",
                 "FORMULA", "Formula"}

ElementFilterKeys == {"only_elements", "required_elements", "exclude_elements"}

FilterKeys == {"peak_positions", "peak_tolerance", "chemical_family",
               "hey_classification"} \cup ElementFilterKeys

\* filters.get('peak_tolerance', 10)
DefaultPeakTolerance == 10

\* "wavenumber values should be reasonable (> 50 cm-1)"
MinDirectWavenumber == 50

\* a or b on two str values
StrOr(a, b) == IF a # <<>> THEN a ELSE b

PeakTolerance(filters) ==
    IF "peak_tolerance" \in filters.keys THEN filters.peak_tolerance
    ELSE DefaultPeakTolerance

\* len(spectrum_wavenumbers) > 0 and all(isinstance(p, (int, float)) and
\* 0 <= p < len(spectrum_wavenumbers) for p in spectrum_peaks_data if p is not None)
LooksLikeIndices(pk, sw) ==
    /\ Len(sw) > 0
    /\ \A i \in 1..Len(pk.items) :
          i \notin pk.nones => (0 <= pk.items[i] /\ pk.items[i] < Len(sw))

\* the loop of the legacy branch: in-range indices converted through the
\* entry's own wavenumber array
RECURSIVE IndicesToWavenumbers(_, _, _)
IndicesToWavenumbers(pk, sw, i) ==
    IF i > Len(pk.items) THEN <<>>
    ELSE IF i \notin pk.nones /\ 0 <= pk.items[i] /\ pk.items[i] < Len(sw)
         THEN <<sw[pk.items[i] + 1]>> \o IndicesToWavenumbers(pk, sw, i + 1)
         ELSE IndicesToWavenumbers(pk, sw, i + 1)

\* the loop of the direct branch: float(None) raises TypeError and the item
\* is skipped; values that are not > 50 are dropped
RECURSIVE DirectWavenumbers(_, _)
DirectWavenumbers(pk, i) ==
    IF i > Len(pk.items) THEN <<>>
    ELSE IF i \notin pk.nones /\ pk.items[i] > MinDirectWavenumber
         THEN <<pk.items[i]>> \o DirectWavenumbers(pk, i + 1)
         ELSE DirectWavenumbers(pk, i + 1)

\* valid_spectrum_peaks, or the early "return False" (usable = FALSE)
ValidSpectrumPeaks(data) ==
    LET pk == data.peaks
        sw == data.wavenumbers
    IN  IF pk.kind \in {"dict_array", "dict_list"}
        THEN IF pk.kind = "dict_array" /\ Len(pk.items) > 0
             THEN [usable |-> TRUE, values |-> pk.items]
             ELSE [usable |-> FALSE, values |-> <<>>]
        ELSE IF pk.kind = "list" /\ Len(pk.items) > 0
        THEN IF LooksLikeIndices(pk, sw)
             THEN [usable |-> TRUE, values |-> IndicesToWavenumbers(pk, sw, 1)]
             ELSE [usable |-> TRUE, values |-> DirectWavenumbers(pk, 1)]
        ELSE [usable |-> FALSE, values |-> <<>>]

\* "Check if all required peaks are found within tolerance"
AllRequiredPeaksFound(valid_spectrum_peaks, required_peaks, tolerance) ==
    \A r \in 1..Len(required_peaks) :
        \E k \in 1..Len(valid_spectrum_peaks) :
            Abs(valid_spectrum_peaks[k] - required_peaks[r]) <= tolerance

\* Mutation of PeakPositionsFilterPasses: an entry without usable peak data
\* skips the peak filter instead of failing it.
PeakPositionsFilterPasses_SkipsUnusable(data, filters) ==
    IF "peak_positions" \notin filters.keys THEN TRUE
    ELSE LET v == ValidSpectrumPeaks(data)
         IN  v.usable =>
                 AllRequiredPeaksFound(v.values, filters.peak_positions,
                                       PeakTolerance(filters))

PeakPositionsFilterPasses(data, filters) ==
    IF "peak_positions" \notin filters.keys THEN TRUE
    ELSE LET v == ValidSpectrumPeaks(data)
         IN  /\ v.usable
             /\ AllRequiredPeaksFound(v.values, filters.peak_positions,
                                      PeakTolerance(filters))

SpectrumFamily(metadata) ==
    StrOr(metadata["CHEMICAL FAMILY"], metadata["Chemical Family"])

ChemicalFamilyFilterPasses(metadata, filters) ==
    IF "chemical_family" \notin filters.keys THEN TRUE
    ELSE LET spectrum_family == SpectrumFamily(metadata)
         IN  /\ spectrum_family # <<>>
             /\ StrContains(lower(filters.chemical_family), lower(spectrum_family))

SpectrumHey(metadata) == metadata["HEY CLASSIFICATION"]

HeyClassificationFilterPasses(metadata, filters) ==
    IF "hey_classification" \notin filters.keys THEN TRUE
    ELSE LET spectrum_hey == SpectrumHey(metadata)
         IN  /\ spectrum_hey # <<>>
             /\ StrContains(lower(filters.hey_classification), lower(spectrum_hey))

ChemistryElements(metadata) ==
    StrOr(metadata["CHEMISTRY ELEMENTS"], metadata["Chemistry Elements"])

Formula(metadata) == StrOr(metadata["FORMULA"], metadata["Formula"])

ElementsSource(metadata) ==
    IF ChemistryElements(metadata) # <<>> THEN ChemistryElements(metadata)
    ELSE Formula(metadata)

\* elements_in_spectrum
ElementsInSpectrum(metadata) ==
    IF ChemistryElements(metadata) # <<>>
    THEN LET parts == split(ChemistryElements(metadata), ",")
         IN  {upper(strip(parts[i])) : i \in 1..Len(parts)}
    ELSE SeqToSet(FindElementTokens(Formula(metadata)))

OnlyElementsPasses(elements_in_spectrum, filters) ==
    "only_elements" \in filters.keys =>
        elements_in_spectrum \subseteq SeqToSet(filters.only_elements)

\* Mutation of RequiredElementsPasses: the subset test is the wrong way round.
RequiredElementsPasses_Swapped(elements_in_spectrum, filters) ==
    "required_elements" \in filters.keys =>
        elements_in_spectrum \subseteq SeqToSet(filters.required_elements)

RequiredElementsPasses(elements_in_spectrum, filters) ==
    "required_elements" \in filters.keys =>
        SeqToSet(filters.required_elements) \subseteq elements_in_spectrum

\* Mutation of ExcludeElementsPasses: the entry is rejected only when all of
\* its elements are excluded.
ExcludeElementsPasses_AllExcluded(elements_in_spectrum, filters) ==
    "exclude_elements" \in filters.keys =>
        ~(elements_in_spectrum \subseteq SeqToSet(filters.exclude_elements))

ExcludeElementsPasses(elements_in_spectrum, filters) ==
    "exclude_elements" \in filters.keys =>
        elements_in_spectrum \cap SeqToSet(filters.exclude_elements) = {}

\* Mutation of ElementFiltersPass: the three element tests form an elif
\* chain, so only the first element filter present is applied.
ElementFiltersPass_ElifChain(metadata, filters) ==
    LET has_element_filters == filters.keys \cap ElementFilterKeys # {}
    IN  IF ~has_element_filters THEN TRUE
        ELSE IF ElementsSource(metadata) = <<>> THEN FALSE
        ELSE LET elements_in_spectrum == ElementsInSpectrum(metadata)
             IN  IF "only_elements" \in filters.keys
                 THEN OnlyElementsPasses(elements_in_spectrum, filters)
                 ELSE IF "required_elements" \in filters.keys
                 THEN RequiredElementsPasses(elements_in_spectrum, filters)
                 ELSE ExcludeElementsPasses(elements_in_spectrum, filters)

ElementFiltersPass(metadata, filters) ==
    LET has_element_filters == filters.keys \cap ElementFilterKeys # {}
    IN  IF ~has_element_filters THEN TRUE
        ELSE IF ElementsSource(metadata) = <<>> THEN FALSE
        ELSE LET elements_in_spectrum == ElementsInSpectrum(metadata)
             IN  /\ OnlyElementsPasses(elements_in_spectrum, filters)
                 /\ RequiredElementsPasses(elements_in_spectrum, filters)
                 /\ ExcludeElementsPasses(elements_in_spectrum, filters)

spectrum_passes_filters(name, data, filters) ==
    IF ~PeakPositionsFilterPasses(data, filters) THEN FALSE
    ELSE IF ~ChemicalFamilyFilterPasses(data.metadata, filters) THEN FALSE
    ELSE IF ~HeyClassificationFilterPasses(data.metadata, filters) THEN FALSE
    ELSE IF ~ElementFiltersPass(data.metadata, filters) THEN FALSE
    ELSE TRUE

-----------------------------------------------------------------------------
(***************************************************************************)
(* RamanAnalysisAppQt6.parse_advanced_filters: the filter set built from   *)
(* the widgets of the advanced-search tab.  widgets is a record of the     *)
(* texts and values the widgets hold.                                      *)
(***************************************************************************)

DigitValue(c) == (CHOOSE i \in 1..Len(Digits) : Digits[i] = c) - 1

RECURSIVE DigitsValue(_)
DigitsValue(s) ==
    IF s = <<>> THEN 0
    ELSE 10 * DigitsValue(SubSeq(s, 1, Len(s) - 1)) + DigitValue(s[Len(s)])

\* float(x.strip()) succeeds; the texts of the model are unsigned integer
\* literals or not numbers at all
IsNumberText(tok) ==
    LET t == strip(tok)
    IN  t # <<>> /\ \A i \in 1..Len(t) : IsDigitChar(t[i])

NumberValue(tok) == DigitsValue(strip(tok))

\* [elem.strip().upper() for elem in elements_str.split(",")]
ParseElementList(elements_str) ==
    LET parts == split(elements_str, ",")
    IN  [i \in 1..Len(parts) |-> upper(strip(parts[i]))]

\* [float(x.strip()) for x in peak_str.split(",")]
ParsePeakList(peak_str) ==
    LET parts == split(peak_str, ",")
    IN  [i \in 1..Len(parts) |-> NumberValue(parts[i])]

\* float() raises ValueError on one of the parts
PeakListInvalid(peak_str) ==
    LET parts == split(peak_str, ",")
    IN  \E i \in 1..Len(parts) : ~IsNumberText(parts[i])

\* the keys parse_advanced_filters puts in the dict
ParsedFilterKeys(widgets) ==
    (IF strip(widgets.peak_positions_edit) # <<>>
        THEN {"peak_positions", "peak_tolerance"} ELSE {})
    \cup (IF strip(widgets.chemical_family_combo) # <<>>
             THEN {"chemical_family"} ELSE {})
    \cup (IF strip(widgets.hey_classification_combo) # <<>>
             THEN {"hey_classification"} ELSE {})
    \cup (IF strip(widgets.only_elements_edit) # <<>>
             THEN {"only_elements"} ELSE {})
    \cup (IF strip(widgets.required_elements_edit) # <<>>
             THEN {"required_elements"} ELSE {})
    \cup (IF strip(widgets.exclude_elements_edit) # <<>>
             THEN {"exclude_elements"} ELSE {})

\* raise ValueError("Invalid peak positions format. ...")
ParseRaises(widgets) ==
    /\ strip(widgets.peak_positions_edit) # <<>>
    /\ PeakListInvalid(strip(widgets.peak_positions_edit))

\* the returned dict, when ParseRaises(widgets) is false; the value of a key
\* that is not in keys is never read
parse_advanced_filters(widgets) ==
    LET keys == ParsedFilterKeys(widgets)
    IN  [keys |-> keys,
         peak_positions |->
             IF "peak_positions" \in keys
             THEN ParsePeakList(strip(widgets.peak_positions_edit)) ELSE <<>>,
         peak_tolerance |->
             IF "peak_tolerance" \in keys
             THEN widgets.peak_tolerance_spin ELSE DefaultPeakTolerance,
         chemical_family |-> strip(widgets.chemical_family_combo),
         hey_classification |-> strip(widgets.hey_classification_combo),
         only_elements |->
             IF "only_elements" \in keys
             THEN ParseElementList(strip(widgets.only_elements_edit)) ELSE <<>>,
         required_elements |->
             IF "required_elements" \in keys
             THEN ParseElementList(strip(widgets.required_elements_edit)) ELSE <<>>,
         exclude_elements |->
             IF "exclude_elements" \in keys
             THEN ParseElementList(strip(widgets.exclude_elements_edit)) ELSE <<>>]

-----------------------------------------------------------------------------
(***************************************************************************)
(* Arrays and numbers.                                                     *)
(*                                                                         *)
(* A numpy array is a sequence of integers: intensities are counted in     *)
(* fixed-point units and every quotient is floored to that resolution.     *)
(* An attribute that may be None is the record None or Some(array).        *)
(***************************************************************************)

None == [is_none |-> TRUE, value |-> <<>>]

Some(v) == [is_none |-> FALSE, value |-> v]

RECURSIVE Sum(_)
Sum(q) == IF q = <<>> THEN 0 ELSE Head(q) + Sum(Tail(q))

\* np.max / np.min of a non-empty array
Max(q) == CHOOSE m \in SeqToSet(q) : \A v \in SeqToSet(q) : v <= m

Min(q) == CHOOSE m \in SeqToSet(q) : \A v \in SeqToSet(q) : m <= v

\* a - b on arrays of one length
ArraySub(a, b) == [i \in 1..Len(a) |-> a[i] - b[i]]

\* the ascending sequence of the members of a finite set of integers
RECURSIVE SortedSeq(_)
SortedSeq(S) ==
    IF S = {} THEN <<>>
    ELSE LET m == CHOOSE x \in S : \A y \in S : x <= y
         IN  <<m>> \o SortedSeq(S \ {m})

\* The least-squares polynomial of degree order through the points
\* (1, ys[1]) .. (n, ys[n]), evaluated at abscissa t: np.polyfit followed by
\* np.polyval, and the fit savgol_filter makes in each window.  The normal
\* equations are solved by Cramer's rule on abscissae centred at c = 2 * x -
\* (n + 1); with no more points than coefficients the fit interpolates.
PolyFitEval(ys, order, t) ==
    LET n  == Len(ys)
        c(i) == 2 * i - (n + 1)
        S(k) == Sum([i \in 1..n |-> CASE k = 0 -> 1
                                      [] k = 1 -> c(i)
                                      [] k = 2 -> c(i) * c(i)
                                      [] k = 3 -> c(i) * c(i) * c(i)
                                      [] OTHER -> c(i) * c(i) * c(i) * c(i)])
        T(k) == Sum([i \in 1..n |-> CASE k = 0 -> ys[i]
                                      [] k = 1 -> c(i) * ys[i]
                                      [] OTHER -> c(i) * c(i) * ys[i]])
        u  == c(t)
    IN  IF n <= order /\ t \in 1..n THEN ys[t]
        ELSE IF order = 1
        THEN \* S(1) = 0 on centred abscissae
             LET num == T(0) * S(2) + u * T(1) * S(0)
                 den == S(0) * S(2)
             IN  num \div den
        ELSE \* S(1) = S(3) = 0 on centred abscissae
             LET D   == S(0) * S(4) - S(2) * S(2)
                 c0  == T(0) * S(4) - T(2) * S(2)
                 c2  == T(2) * S(0) - T(0) * S(2)
                 \* value = (c0 + c2 u^2) / D + u T(1) / S(2)
                 num == (c0 + c2 * u * u) * S(2) + u * T(1) * D
                 den == D * S(2)
             IN  num \div den

-----------------------------------------------------------------------------
(***************************************************************************)
(* PeakDetector: scipy.signal.find_peaks as update_peak_detection calls it *)
(* (height, distance and prominence conditions).  Peak indices are 0-based *)
(* as in the code.                                                         *)
(***************************************************************************)

\* _local_maxima_1d: the midpoints of the plateaus that are strictly higher
\* than both neighbours; the first and the last sample are never peaks
LocalMaxima(x) ==
    {((l - 1) + (r - 1)) \div 2 :
        <<l, r>> \in {lr \in (2..(Len(x) - 1)) \X (2..(Len(x) - 1)) :
                        /\ lr[1] <= lr[2]
                        /\ \A i \in lr[1]..lr[2] : x[i] = x[lr[1]]
                        /\ x[lr[1] - 1] < x[lr[1]]
                        /\ x[lr[2] + 1] < x[lr[2]]}}

\* _select_by_peak_distance: peaks are visited from the highest to the
\* lowest (the later one first among equals); a visited peak that is still
\* kept removes every other peak closer than distance
RECURSIVE SelectByPeakDistance(_, _, _, _)
SelectByPeakDistance(x, distance, todo, keep) ==
    IF todo = {} THEN keep
    ELSE LET j == CHOOSE a \in todo : \A b \in todo :
                      \/ x[b + 1] < x[a + 1]
                      \/ x[b + 1] = x[a + 1] /\ b <= a
         IN  IF j \notin keep
             THEN SelectByPeakDistance(x, distance, todo \ {j}, keep)
             ELSE SelectByPeakDistance(x, distance, todo \ {j},
                      {k \in keep : k = j \/ Abs(k - j) >= distance})

\* peak_prominences: the peak's height above the higher of the two lowest
\* points between the peak and the next higher sample on either side
Prominence(x, p) ==
    LET i == p + 1
        leftStop  == IF \E k \in 1..(i - 1) : x[k] > x[i]
                     THEN CHOOSE k \in 1..(i - 1) :
                              x[k] > x[i] /\ \A m \in (k + 1)..(i - 1) : x[m] <= x[i]
                     ELSE 0
        rightStop == IF \E k \in (i + 1)..Len(x) : x[k] > x[i]
                     THEN CHOOSE k \in (i + 1)..Len(x) :
                              x[k] > x[i] /\ \A m \in (i + 1)..(k - 1) : x[m] <= x[i]
                     ELSE Len(x) + 1
        left_min  == Min(SubSeq(x, leftStop + 1, i))
        right_min == Min(SubSeq(x, i, rightStop - 1))
    IN  x[i] - (IF left_min > right_min THEN left_min ELSE right_min)

\* find_peaks(x, height=.., distance=.., prominence=..) with the thresholds
\* update_peak_detection derives from the sliders: a percentage of 0 means
\* the condition is not given (None)
find_peaks(x, height_percent, distance, prominence_percent) ==
    LET max_intensity == Max(x)
        all_peaks == LocalMaxima(x)
        by_height == IF height_percent > 0
                     THEN {p \in all_peaks :
                              100 * x[p + 1] >= height_percent * max_intensity}
                     ELSE all_peaks
        by_distance == SelectByPeakDistance(x, distance, by_height, by_height)
        by_prominence == IF prominence_percent > 0
                         THEN {p \in by_distance :
                                  100 * Prominence(x, p) >=
                                      prominence_percent * max_intensity}
                         ELSE by_distance
    IN  SortedSeq(by_prominence)

-----------------------------------------------------------------------------
(***************************************************************************)
(* BaselineEstimator and smoothing.                                        *)
(***************************************************************************)

\* np.linspace(y[0], y[-1], len(y))
LinearBackground(y) ==
    [i \in 1..Len(y) |->
        IF Len(y) = 1 THEN y[1]
        ELSE y[1] + ((i - 1) * (y[Len(y)] - y[1])) \div (Len(y) - 1)]

\* np.polyval(np.polyfit(x, y, 2), x)
PolynomialBackground(y) == [i \in 1..Len(y) |-> PolyFitEval(y, 2, i)]

\* max(len(y) // 20, 5)
WindowSize(y) == IF Len(y) \div 20 > 5 THEN Len(y) \div 20 ELSE 5

\* np.convolve(y, np.ones(window_size)/window_size, mode='same'): the
\* central max(len(y), window_size) values of the full convolution
MovingAverageBackground(y) ==
    LET n  == Len(y)
        ws == WindowSize(y)
        longer  == IF n > ws THEN n ELSE ws
        shorter == IF n > ws THEN ws ELSE n
        offset  == (shorter - 1) \div 2
        \* full[k], k 0-based: the windowed sum over the samples that exist
        full(k) == Sum([j \in 1..n |->
                          IF k - (j - 1) >= 0 /\ k - (j - 1) < ws THEN y[j] ELSE 0])
    IN  [i \in 1..longer |-> full(i - 1 + offset) \div ws]

RECURSIVE GCD(_, _)
GCD(a, b) == IF b = 0 THEN a ELSE GCD(b, a % b)

\* The solution z of (W + lam * D D') z = W y for the stiff lam of the
\* lambda slider (10^3 .. 10^7) and the few points of the spectra here: the
\* W-weighted least-squares straight line, which the penalised solution
\* approaches within O(1/lam).  With two points or fewer D is empty and z = y.
WeightedLine(y, w) ==
    LET n    == Len(y)
        c(i) == 2 * i - (n + 1)
        Sw   == Sum([i \in 1..n |-> w[i]])
        Swc  == Sum([i \in 1..n |-> w[i] * c(i)])
        Swcc == Sum([i \in 1..n |-> w[i] * c(i) * c(i)])
        Swy  == Sum([i \in 1..n |-> w[i] * y[i]])
        Swcy == Sum([i \in 1..n |-> w[i] * c(i) * y[i]])
        D    == Sw * Swcc - Swc * Swc
        a    == Swy * Swcc - Swc * Swcy
        b    == Sw * Swcy - Swc * Swy
    IN  IF n <= 2 THEN y
        ELSE [i \in 1..n |-> (a + b * c(i)) \div D]

\* baseline_als(y, lam, p, niter): w starts at ones; each iteration solves
\* for z and sets w = p where y > z and 1 - p elsewhere.  p is given in
\* thousandths; the two weights are reduced by their common divisor.
RECURSIVE AlsIterate(_, _, _, _)
AlsIterate(y, w, p, niter) ==
    LET z == WeightedLine(y, w)
        g == GCD(1000 - p, p)
        w_next == [i \in 1..Len(y) |->
                      IF y[i] > z[i] THEN p \div g ELSE (1000 - p) \div g]
    IN  IF niter <= 1 THEN z ELSE AlsIterate(y, w_next, p, niter - 1)

baseline_als(y, p, niter) ==
    AlsIterate(y, [i \in 1..Len(y) |-> 1], p, niter)

\* raman_db.subtract_background_als(wavenumbers, intensities, lam, p, niter)
\* -> (corrected_intensities, baseline)
subtract_background_als(wavenumbers, intensities, p, niter) ==
    LET baseline == baseline_als(intensities, p, niter)
    IN  [corrected_intensities |-> ArraySub(intensities, baseline),
         baseline |-> baseline]

\* savgol_filter(y, window_length, polyorder) with mode='interp': inside,
\* the fit over the window centred on the sample; within half a window of
\* an end, the fit over the first (last) window_length samples
savgol_filter(y, window_length, polyorder) ==
    LET n == Len(y)
        h == window_length \div 2
    IN  [i \in 1..n |->
            LET start == IF i <= h THEN 1
                         ELSE IF i > n - h THEN n - window_length + 1
                         ELSE i - h
            IN  PolyFitEval(SubSeq(y, start, start + window_length - 1),
                            polyorder, i - start + 1)]

\* savgol_filter raises ValueError when the window is longer than the array
SavgolRaises(y, window_length) == window_length > Len(y)

-----------------------------------------------------------------------------
(***************************************************************************)
(* RamanAnalysisAppQt6: the handlers of the spectrum and its               *)
(* preprocessing, as functions from the object's attributes (the record    *)
(* self) to the attributes they leave.  The field raised holds the type of *)
(* the exception a handler raised, "" when it raised none: the statements  *)
(* after the raise do not run, the assignments before it stay.  The record *)
(* widgets holds the values the handler reads from the widgets.            *)
(***************************************************************************)

\* a - b with numpy broadcasting; Len 0 stands for "shapes do not broadcast"
BroadcastLen(a, b) ==
    IF Len(a) = Len(b) THEN Len(a)
    ELSE IF Len(a) = 1 THEN Len(b)
    ELSE IF Len(b) = 1 THEN Len(a)
    ELSE 0

BroadcastSub(a, b) ==
    [i \in 1..BroadcastLen(a, b) |->
        (IF Len(a) = 1 THEN a[1] ELSE a[i]) - (IF Len(b) = 1 THEN b[1] ELSE b[i])]

\* the exception update_plot raises, "" when it draws: matplotlib rejects
\* x and y of different lengths, numpy rejects an index beyond the array
PlotRaises(self) ==
    IF self.current_wavenumbers.is_none \/ self.processed_intensities.is_none
    THEN ""
    ELSE LET n == Len(self.current_wavenumbers.value)
         IN  IF Len(self.processed_intensities.value) # n THEN "ValueError"
             ELSE IF /\ self.background_preview_active
                     /\ ~self.preview_background.is_none
                     /\ \/ Len(self.preview_background.value) # n
                        \/ /\ ~self.preview_corrected.is_none
                           /\ Len(self.preview_corrected.value) # n
             THEN "ValueError"
             ELSE IF /\ self.smoothing_preview_active
                     /\ ~self.preview_smoothed.is_none
                     /\ Len(self.preview_smoothed.value) # n
             THEN "ValueError"
             ELSE IF /\ ~self.detected_peaks.is_none
                     /\ \E k \in 1..Len(self.detected_peaks.value) :
                            self.detected_peaks.value[k] >= n
             THEN "IndexError"
             ELSE ""

update_plot(self) == [self EXCEPT !.raised = PlotRaises(self)]

\* file is what parse_spectrum_file returns: (wavenumbers, intensities)
load_spectrum_file(self, file) ==
    IF Len(file.wavenumbers) = 0 \/ Len(file.intensities) = 0
    THEN [self EXCEPT !.raised = "Exception"]
    ELSE IF Len(file.wavenumbers) # Len(file.intensities)
    THEN [self EXCEPT !.raised = "Exception"]
    ELSE LET stored ==
                 [self EXCEPT !.current_wavenumbers = Some(file.wavenumbers),
                              !.current_intensities = Some(file.intensities),
                              !.processed_intensities = Some(file.intensities),
                              !.processed_shares_current = FALSE,
                              !.background_preview_active = FALSE,
                              !.smoothing_preview_active = FALSE,
                              !.preview_background = None,
                              !.preview_corrected = None,
                              !.preview_smoothed = None]
         IN  IF PlotRaises(stored) # ""
             THEN [stored EXCEPT !.raised = "Exception"]
             ELSE stored

IsALS(method) == method = "ALS (Asymmetric Least Squares)"

\* the background the selected method estimates for y
Background(self, widgets) ==
    LET y == self.processed_intensities.value
        method == widgets.bg_method_combo
    IN  IF IsALS(method)
        THEN subtract_background_als(self.current_wavenumbers.value, y,
                                     widgets.p_slider, 10).baseline
        ELSE IF method = "Linear" THEN LinearBackground(y)
        ELSE IF method = "Polynomial" THEN PolynomialBackground(y)
        ELSE MovingAverageBackground(y)

\* self.processed_intensities -= background: the array is written in place,
\* and current_intensities with it when it is the same array
SubtractedInPlace(self, corrected) ==
    [self EXCEPT !.processed_intensities = Some(corrected),
                 !.current_intensities =
                     IF self.processed_shares_current THEN Some(corrected) ELSE @]

subtract_background(self, widgets) ==
    IF self.processed_intensities.is_none THEN self
    ELSE LET y == self.processed_intensities.value
             background == Background(self, widgets)
         IN  \* self.processed_intensities -= background is in place: the
             \* result must have the shape of processed_intensities
             IF BroadcastLen(y, background) # Len(y)
             THEN [self EXCEPT !.raised = "ValueError"]
             ELSE IF IsALS(widgets.bg_method_combo)
             THEN update_plot([self EXCEPT !.processed_intensities =
                                               Some(BroadcastSub(y, background)),
                                           !.processed_shares_current = FALSE])
             ELSE update_plot(SubtractedInPlace(self, BroadcastSub(y, background)))

preview_background_subtraction(self, widgets) ==
    IF self.processed_intensities.is_none THEN self
    ELSE LET y == self.processed_intensities.value
             background == Background(self, widgets)
             with_background == [self EXCEPT !.preview_background = Some(background)]
         IN  IF BroadcastLen(y, background) = 0
             THEN [with_background EXCEPT !.raised = "ValueError"]
             ELSE update_plot([with_background EXCEPT
                                  !.preview_corrected = Some(BroadcastSub(y, background)),
                                  !.background_preview_active = TRUE])

clear_background_preview(self) ==
    update_plot([self EXCEPT !.background_preview_active = FALSE,
                             !.preview_background = None,
                             !.preview_corrected = None])

apply_background_subtraction(self, widgets) ==
    IF ~self.background_preview_active \/ self.preview_corrected.is_none
    THEN subtract_background(self, widgets)
    ELSE LET applied == [self EXCEPT !.processed_intensities =
                                         Some(self.preview_corrected.value),
                                     !.processed_shares_current = FALSE]
             cleared == clear_background_preview(applied)
         IN  IF cleared.raised # "" THEN cleared ELSE update_plot(cleared)

clear_smoothing_preview(self) ==
    update_plot([self EXCEPT !.smoothing_preview_active = FALSE,
                             !.preview_smoothed = None])

reset_spectrum(self) ==
    IF self.current_intensities.is_none THEN self
    ELSE LET restored == [self EXCEPT !.processed_intensities =
                                          Some(self.current_intensities.value),
                                      !.processed_shares_current = FALSE,
                                      !.detected_peaks = None]
             bg_cleared == IF restored.background_preview_active
                           THEN clear_background_preview(restored) ELSE restored
             sm_cleared == IF bg_cleared.smoothing_preview_active
                           THEN clear_smoothing_preview(bg_cleared) ELSE bg_cleared
         IN  IF bg_cleared.raised # "" THEN bg_cleared
             ELSE IF sm_cleared.raised # "" THEN sm_cleared
             ELSE update_plot(sm_cleared)

update_peak_detection(self, widgets) ==
    IF self.processed_intensities.is_none THEN self
    ELSE LET peaks == find_peaks(self.processed_intensities.value,
                                 widgets.height_slider, widgets.distance_slider,
                                 widgets.prominence_slider)
             detected == [self EXCEPT !.detected_peaks = Some(peaks)]
         IN  \* self.current_wavenumbers[self.detected_peaks]
             IF \E k \in 1..Len(peaks) :
                    peaks[k] >= Len(self.current_wavenumbers.value)
             THEN [detected EXCEPT !.raised = "IndexError"]
             ELSE update_plot(detected)

apply_smoothing(self, widgets) ==
    IF self.processed_intensities.is_none THEN self
    ELSE IF self.smoothing_preview_active /\ ~self.preview_smoothed.is_none
    THEN LET applied == [self EXCEPT !.processed_intensities =
                                         Some(self.preview_smoothed.value),
                                     !.processed_shares_current = FALSE]
             cleared == clear_smoothing_preview(applied)
         IN  IF cleared.raised # "" THEN cleared ELSE update_plot(cleared)
    ELSE IF widgets.sg_window_spin <= widgets.sg_order_spin THEN self
    ELSE IF SavgolRaises(self.processed_intensities.value, widgets.sg_window_spin)
    THEN [self EXCEPT !.raised = "ValueError"]
    ELSE update_plot([self EXCEPT !.processed_intensities =
                         Some(savgol_filter(self.processed_intensities.value,
                                            widgets.sg_window_spin,
                                            widgets.sg_order_spin)),
                                  !.processed_shares_current = FALSE])

preview_smoothing(self, widgets) ==
    IF self.processed_intensities.is_none THEN self
    ELSE IF widgets.sg_window_spin <= widgets.sg_order_spin THEN self
    ELSE IF SavgolRaises(self.processed_intensities.value, widgets.sg_window_spin)
    THEN [self EXCEPT !.raised = "ValueError"]
    ELSE update_plot([self EXCEPT
                         !.preview_smoothed =
                             Some(savgol_filter(self.processed_intensities.value,
                                                widgets.sg_window_spin,
                                                widgets.sg_order_spin)),
                         !.smoothing_preview_active = TRUE])

on_bg_method_changed(self) ==
    IF self.background_preview_active THEN clear_background_preview(self) ELSE self

-----------------------------------------------------------------------------
(***************************************************************************)
(* SimilarityScorer.  A score is an integer number of hundredths (the      *)
(* resolution of the threshold spin boxes), floored: 100 is a score of 1.0 *)
(***************************************************************************)

ScoreOne == 100

RECURSIVE GcdOfSeq(_)
GcdOfSeq(q) == IF q = <<>> THEN 0 ELSE GCD(Abs(Head(q)), GcdOfSeq(Tail(q)))

\* the least common multiple of the gaps between consecutive abscissae
RECURSIVE GapLcm(_)
GapLcm(xp) ==
    IF Len(xp) < 2 THEN 1
    ELSE LET gap  == xp[2] - xp[1]
             rest == GapLcm(Tail(xp))
         IN  (gap * rest) \div GCD(gap, rest)

\* np.linspace(lo, hi, n)[k] times m, where m = max(n - 1, 1) and k is 0-based
GridPoint(lo, hi, n, k) ==
    LET m == IF n > 1 THEN n - 1 ELSE 1
    IN  lo * m + k * (hi - lo)

\* np.interp(x, xp, fp) times m * GapLcm(xp), for x = X / m: linear between
\* the knots, the end values outside them
InterpScaled(X, m, xp, fp) ==
    LET L == GapLcm(xp)
        N == Len(xp)
    IN  IF X <= xp[1] * m THEN fp[1] * m * L
        ELSE IF X >= xp[N] * m THEN fp[N] * m * L
        ELSE LET j == CHOOSE i \in 1..(N - 1) : xp[i] * m <= X /\ X < xp[i + 1] * m
             IN  fp[j] * m * L
                 + (fp[j + 1] - fp[j]) * (X - xp[j] * m) * (L \div (xp[j + 1] - xp[j]))

\* a series divided by the common divisor of its values (the correlation
\* coefficient does not depend on the scale of either series)
Reduced(q) ==
    LET g == GcdOfSeq(q)
    IN  IF g = 0 THEN q ELSE [i \in 1..Len(q) |-> q[i] \div g]

\* the largest integer whose square is at most v
Isqrt(v) == CHOOSE r \in 0..ScoreOne : r * r <= v /\ (r + 1) * (r + 1) > v

\* floor(100 * |cov| / sqrt(P)) for |cov| <= sqrt(P), by long division
PercentOfRoot(cov2, P) ==
    LET a  == cov2 % P
        q1 == (100 * a) \div P
        r1 == (100 * a) % P
        q2 == (100 * r1) \div P
        F  == 10000 * (cov2 \div P) + 100 * q1 + q2
    IN  IF F >= 10000 THEN ScoreOne ELSE Isqrt(F)

calculate_correlation_score(self, db_wavenumbers, db_intensities) ==
    IF Len(db_wavenumbers) = 0 \/ Len(db_intensities) = 0 THEN 0
    ELSE LET cw == self.current_wavenumbers.value
             pi == self.processed_intensities.value
             lo == IF Min(cw) > Min(db_wavenumbers) THEN Min(cw) ELSE Min(db_wavenumbers)
             hi == IF Max(cw) < Max(db_wavenumbers) THEN Max(cw) ELSE Max(db_wavenumbers)
             n  == IF Len(cw) < Len(db_wavenumbers) THEN Len(cw) ELSE Len(db_wavenumbers)
             m  == IF n > 1 THEN n - 1 ELSE 1
         IN  \* np.interp raises ValueError when xp and fp differ in length
             IF Len(cw) # Len(pi) \/ Len(db_wavenumbers) # Len(db_intensities) THEN 0
             ELSE LET query_interp ==
                          Reduced([k \in 1..n |->
                              InterpScaled(GridPoint(lo, hi, n, k - 1), m, cw, pi)])
                      db_interp ==
                          Reduced([k \in 1..n |->
                              InterpScaled(GridPoint(lo, hi, n, k - 1), m,
                                           db_wavenumbers, db_intensities)])
                      sq  == Sum(query_interp)
                      sd  == Sum(db_interp)
                      vq  == n * Sum([k \in 1..n |-> query_interp[k] * query_interp[k]]) - sq * sq
                      vd  == n * Sum([k \in 1..n |-> db_interp[k] * db_interp[k]]) - sd * sd
                      cov == n * Sum([k \in 1..n |-> query_interp[k] * db_interp[k]]) - sq * sd
                  IN  \* query_std == 0 or db_std == 0
                      IF vq = 0 \/ vd = 0 THEN 0
                      ELSE PercentOfRoot(cov * cov, vq * vd)

\* the index (1-based) of the first smallest value: np.argmin
ArgMin(q) == CHOOSE i \in 1..Len(q) :
                 /\ \A k \in 1..Len(q) : q[i] <= q[k]
                 /\ \A k \in 1..(i - 1) : q[k] > q[i]

\* cm-1 tolerance for peak matching
PeakMatchTolerance == 20

\* calculate_peak_score for peak intensities whose maxima are positive (the
\* spectra searched here); 0.7 * matched / all + 0.3 * (1 - mean intensity
\* difference), clipped to [0, 1]
calculate_peak_score(self, db_wavenumbers, db_intensities) ==
    IF self.detected_peaks.is_none \/ Len(self.detected_peaks.value) = 0 THEN 0
    ELSE LET dp == self.detected_peaks.value
             cw == self.current_wavenumbers.value
             pi == self.processed_intensities.value
         IN  \* fancy indexing beyond either array raises IndexError
             IF \E k \in 1..Len(dp) : dp[k] >= Len(cw) \/ dp[k] >= Len(pi) THEN 0
             ELSE IF Len(db_wavenumbers) = 0 \/ Len(db_intensities) = 0 THEN 0
             ELSE LET db_peaks == find_peaks(db_intensities, 10, 1, 0)
                  IN  IF Len(db_peaks) = 0 THEN 0
                      ELSE IF \E k \in 1..Len(db_peaks) : db_peaks[k] >= Len(db_wavenumbers)
                      THEN 0
                      ELSE LET cpos == [k \in 1..Len(dp) |-> cw[dp[k] + 1]]
                               cint == [k \in 1..Len(dp) |-> pi[dp[k] + 1]]
                               dpos == [k \in 1..Len(db_peaks) |-> db_wavenumbers[db_peaks[k] + 1]]
                               dint == [k \in 1..Len(db_peaks) |-> db_intensities[db_peaks[k] + 1]]
                               cmax == Max(cint)
                               dmax == Max(dint)
                               nearest(k) == ArgMin([j \in 1..Len(dpos) |-> Abs(dpos[j] - cpos[k])])
                               matched == {k \in 1..Len(dp) :
                                              Abs(dpos[nearest(k)] - cpos[k]) <= PeakMatchTolerance}
                               \* sum over the matched peaks of
                               \* |curr_int / cmax - db_int / dmax| * cmax * dmax
                               diff == Sum([k \in 1..Len(dp) |->
                                          IF k \in matched
                                          THEN Abs(cint[k] * dmax - dint[nearest(k)] * cmax)
                                          ELSE 0])
                               mp  == Cardinality(matched)
                               num == 70 * mp * mp * cmax * dmax
                                      + 30 * Len(dp) * (mp * cmax * dmax - diff)
                               den == Len(dp) * mp * cmax * dmax
                           IN  IF mp = 0 THEN 0
                               ELSE IF num < 0 THEN 0
                               ELSE IF num \div den > ScoreOne THEN ScoreOne
                               ELSE num \div den

\* fastdtw's dtw table: a cell holds the accumulated cost and the length of
\* the warping path that ends in it, continuing the cheapest of the cells
\* (i-1, j), (i, j-1), (i-1, j-1), the first of them on a tie.  The cost of
\* cell (i, j) is |x[i] - y[j]|; cells outside the table cost Infinity.
\* (For series of up to 5 points the search window of fastdtw is the whole
\* table.)
DtwInfinity == 1000000000

\* the table filled cell by cell, row after row; table holds the cells
\* before cell number k, and cell (i, j) has number (i - 1) * m + j
RECURSIVE DtwFill(_, _, _, _)
DtwFill(x, y, k, table) ==
    IF k > Len(x) * Len(y) THEN table
    ELSE LET m == Len(y)
             i == ((k - 1) \div m) + 1
             j == ((k - 1) % m) + 1
             origin == [total |-> 0, steps |-> 0]
             outside == [total |-> DtwInfinity, steps |-> 0]
             up   == IF i = 1 THEN outside ELSE table[k - m]
             left == IF j = 1 THEN outside ELSE table[k - 1]
             diag == IF i = 1 /\ j = 1 THEN origin
                     ELSE IF i = 1 \/ j = 1 THEN outside
                     ELSE table[k - m - 1]
             best == IF up.total <= left.total /\ up.total <= diag.total THEN up
                     ELSE IF left.total <= diag.total THEN left
                     ELSE diag
             \* dist=spectral_distance: abs(a - b)
             cell == [total |-> best.total + Abs(x[i] - y[j]),
                      steps |-> best.steps + 1]
         IN  \* the table is extended before the next cell is filled
             CHOOSE filled \in {DtwFill(x, y, k + 1, next) :
                                   next \in {Append(table, cell)}} : TRUE

\* the last cell: the accumulated cost and the length of the warping path
DtwCell(x, y) == DtwFill(x, y, 1, <<>>)[Len(x) * Len(y)]

\* the terms x^k / k! of the exponential series, in units of 10^-5, for x
\* in thousandths
RECURSIVE ExpTerms(_, _, _)
ExpTerms(X, k, term) ==
    IF term = 0 THEN 0
    ELSE LET next == (term * X) \div (1000 * k)
         IN  term - (next - ExpTerms(X, k + 2, (next * X) \div (1000 * (k + 1))))

\* floor(100 * np.exp(-num / den)) for 0 <= num / den <= 2
ExpNegPercent(num, den) ==
    LET X == (1000 * num) \div den
    IN  ExpTerms(X, 1, 100000) \div 1000

\* max(0, min(1, score))
ClipScore(score) ==
    IF score > ScoreOne THEN ScoreOne
    ELSE IF score < 0 THEN 0
    ELSE score

\* np.exp(-2 * distance / len(path)) for the warping path that ends in cell
\* end, the distances being in units of 1 / scale
PathSimilarity(end, scale) ==
    IF end.steps = 0 THEN 0
    ELSE ClipScore(ExpNegPercent(2 * end.total, scale * end.steps))

\* the similarity of two series on the common grid: both are min-max
\* normalized, aligned by fastdtw with the distance |a - b|, and the
\* distance per path step is turned into a similarity
DtwSimilarity(query_interp, db_interp, qmin, qr, dmin, dr) ==
    \* np.std(query_interp) == 0 or np.std(db_interp) == 0
    IF qr = 0 \/ dr = 0 THEN 0
    \* query_norm and db_norm, both times qr * dr
    ELSE PathSimilarity(
             DtwCell([i \in 1..Len(query_interp) |-> (query_interp[i] - qmin) * dr],
                     [j \in 1..Len(db_interp) |-> (db_interp[j] - dmin) * qr]),
             qr * dr)

\* the series q with its minimum and its range
DtwSeries(q) == [values |-> q, min |-> Min(q), range |-> Max(q) - Min(q)]

DtwOfSeries(query, db) ==
    DtwSimilarity(query.values, db.values, query.min, query.range, db.min, db.range)

\* np.interp(np.linspace(lo, hi, n), xp, fp), up to a common factor
InterpOnGrid(lo, hi, n, xp, fp) ==
    Reduced([k \in 1..n |->
        InterpScaled(GridPoint(lo, hi, n, k - 1), IF n > 1 THEN n - 1 ELSE 1, xp, fp)])

\* the larger and the smaller of two numbers
Larger(a, b) == IF a > b THEN a ELSE b

Smaller(a, b) == IF a < b THEN a ELSE b

\* the part of calculate_dtw_score behind the checks of the overlap
DtwOnOverlap(cw, pi, db_wavenumbers, db_intensities, overlap_start, overlap_end) ==
    \* overlap_range < 0.3 * min(query_range, db_range)
    IF 10 * (overlap_end - overlap_start)
           < 3 * Smaller(Max(cw) - Min(cw), Max(db_wavenumbers) - Min(db_wavenumbers))
    THEN 0
    \* np.interp raises ValueError when xp and fp differ in length
    ELSE IF Len(cw) # Len(pi) \/ Len(db_wavenumbers) # Len(db_intensities) THEN 0
    ELSE DtwOfSeries(
             DtwSeries(InterpOnGrid(overlap_start, overlap_end,
                                    Smaller(Len(cw), Len(db_wavenumbers)), cw, pi)),
             DtwSeries(InterpOnGrid(overlap_start, overlap_end,
                                    Smaller(Len(cw), Len(db_wavenumbers)),
                                    db_wavenumbers, db_intensities)))

\* the body of the try of calculate_dtw_score once fastdtw is imported
DtwWithFastdtw(self, db_wavenumbers, db_intensities) ==
    IF Len(db_wavenumbers) = 0 \/ Len(db_intensities) = 0 THEN 0
    ELSE DtwOnOverlap(self.current_wavenumbers.value, self.processed_intensities.value,
                      db_wavenumbers, db_intensities,
                      Larger(Min(self.current_wavenumbers.value), Min(db_wavenumbers)),
                      Smaller(Max(self.current_wavenumbers.value), Max(db_wavenumbers)))

\* Mutation of calculate_dtw_score: the ImportError is handled by the
\* general handler, which returns 0.0.
calculate_dtw_score_NoFallback(self, db_wavenumbers, db_intensities) ==
    IF ~self.fastdtw THEN 0
    ELSE DtwWithFastdtw(self, db_wavenumbers, db_intensities)

calculate_dtw_score(self, db_wavenumbers, db_intensities) ==
    \* except ImportError: the import is the first statement of the try
    IF ~self.fastdtw
    THEN calculate_correlation_score(self, db_wavenumbers, db_intensities)
    ELSE DtwWithFastdtw(self, db_wavenumbers, db_intensities)

\* 0.3 * correlation_score + 0.7 * dtw_score, clipped to [0, 1]
calculate_combined_score(self, db_wavenumbers, db_intensities) ==
    ClipScore((30 * calculate_correlation_score(self, db_wavenumbers, db_intensities)
               + 70 * calculate_dtw_score(self, db_wavenumbers, db_intensities)) \div 100)

\* the score the search loops compute for one candidate
CandidateScore(self, data, algorithm) ==
    IF algorithm = "correlation"
    THEN calculate_correlation_score(self, data.wavenumbers, data.intensities)
    ELSE IF algorithm = "peak"
    THEN calculate_peak_score(self, data.wavenumbers, data.intensities)
    ELSE IF algorithm = "combined"
    THEN calculate_combined_score(self, data.wavenumbers, data.intensities)
    ELSE IF algorithm = "DTW"
    THEN calculate_dtw_score(self, data.wavenumbers, data.intensities)
    ELSE calculate_correlation_score(self, data.wavenumbers, data.intensities)

-----------------------------------------------------------------------------
(***************************************************************************)
(* SearchEngine: perform_advanced_search and what it calls.  The database  *)
(* is the sequence of its (name, data) items in insertion order, the order *)
(* in which a dict is iterated; a match is a record [name, score].         *)
(***************************************************************************)

\* characters in ascending code point order
CodePoints == <<" ">> \o Digits \o UpperAlphabet \o LowerAlphabet

Ord(c) == CHOOSE i \in 1..Len(CodePoints) : CodePoints[i] = c

\* a < b on str
RECURSIVE StrLess(_, _)
StrLess(a, b) ==
    IF b = <<>> THEN FALSE
    ELSE IF a = <<>> THEN TRUE
    ELSE IF a[1] = b[1] THEN StrLess(Tail(a), Tail(b))
    ELSE Ord(a[1]) < Ord(b[1])

\* list.sort is stable: an item is placed behind the items it does not
\* precede
RECURSIVE InsertByName(_, _)
InsertByName(match, sorted) ==
    IF sorted = <<>> THEN <<match>>
    ELSE IF StrLess(match.name, Head(sorted).name) THEN <<match>> \o sorted
    ELSE <<Head(sorted)>> \o InsertByName(match, Tail(sorted))

\* matches.sort(key=lambda x: x['name'])
RECURSIVE SortByName(_)
SortByName(matches) ==
    IF matches = <<>> THEN <<>>
    ELSE InsertByName(matches[Len(matches)],
                      SortByName(SubSeq(matches, 1, Len(matches) - 1)))

\* Mutation of InsertByScore: a match goes before the matches of equal score.
RECURSIVE InsertByScore_TiesFirst(_, _)
InsertByScore_TiesFirst(match, sorted) ==
    IF sorted = <<>> THEN <<match>>
    ELSE IF match.score >= Head(sorted).score THEN <<match>> \o sorted
    ELSE <<Head(sorted)>> \o InsertByScore_TiesFirst(match, Tail(sorted))

\* list.sort is stable: with reverse=True the matches of equal score keep
\* the order in which they were appended
RECURSIVE InsertByScore(_, _)
InsertByScore(match, sorted) ==
    IF sorted = <<>> THEN <<match>>
    ELSE IF match.score > Head(sorted).score THEN <<match>> \o sorted
    ELSE <<Head(sorted)>> \o InsertByScore(match, Tail(sorted))

\* matches.sort(key=lambda x: x['score'], reverse=True)
RECURSIVE SortByScore(_)
SortByScore(matches) ==
    IF matches = <<>> THEN <<>>
    ELSE InsertByScore(matches[Len(matches)],
                       SortByScore(SubSeq(matches, 1, Len(matches) - 1)))

\* matches[:n]
Take(matches, n) == SubSeq(matches, 1, IF n < Len(matches) THEN n ELSE Len(matches))

apply_metadata_filters(db, filters) ==
    SelectSeq(db, LAMBDA item : spectrum_passes_filters(item.name, item.data, filters))

\* the matches search_filtered_candidates collects before it sorts them
RECURSIVE ScoredMatches(_, _, _, _)
ScoredMatches(self, candidates, algorithm, threshold) ==
    IF candidates = <<>> THEN <<>>
    ELSE LET name == Head(candidates).name
             data == Head(candidates).data
             rest == ScoredMatches(self, Tail(candidates), algorithm, threshold)
         IN  IF Len(data.wavenumbers) = 0 \/ Len(data.intensities) = 0 THEN rest
             ELSE LET score == CandidateScore(self, data, algorithm)
                  IN  IF score >= threshold
                      THEN <<[name |-> name, score |-> score]>> \o rest
                      ELSE rest

search_filtered_candidates(self, candidates, algorithm, n_matches, threshold) ==
    Take(SortByScore(ScoredMatches(self, candidates, algorithm, threshold)), n_matches)

\* Mutation of IsPeakOnlySearch: the peak-only mode also requires that
\* no other filter is set.
IsPeakOnlySearch_PeakFilterAlone(filters) ==
    /\ "peak_positions" \in filters.keys
    /\ Len(filters.peak_positions) > 0
    /\ filters.keys \subseteq {"peak_positions", "peak_tolerance"}

\* is_peak_only_search
IsPeakOnlySearch(filters) ==
    "peak_positions" \in filters.keys /\ Len(filters.peak_positions) > 0

\* the matches of the peak-only branch
PeakOnlyMatches(candidates, n_matches) ==
    LET matches == SortByName([i \in 1..Len(candidates) |->
                       [name |-> candidates[i].name, score |-> ScoreOne]])
    IN  IF n_matches < Len(matches) THEN Take(matches, n_matches) ELSE matches

\* f"Advanced Search ({algorithm_name})"
SearchType(filters, algorithm) ==
    IF IsPeakOnlySearch(filters) THEN "Advanced Search (Peak-Only Search)"
    ELSE IF algorithm = "DTW" THEN "Advanced Search (DTW (Dynamic Time Warping))"
    ELSE IF algorithm = "correlation" THEN "Advanced Search (Correlation)"
    ELSE IF algorithm = "peak" THEN "Advanced Search (Peak)"
    ELSE "Advanced Search (Combined)"

NoFilters == [keys |-> {}, peak_positions |-> <<>>, peak_tolerance |-> DefaultPeakTolerance,
              chemical_family |-> <<>>, hey_classification |-> <<>>,
              only_elements |-> <<>>, required_elements |-> <<>>,
              exclude_elements |-> <<>>]

\* what a search leaves on the screen: outcome is the message box shown
\* ("No Data", "Empty Database", "No Results", "Advanced Search Error") or
\* "displayed" when display_search_results ran
SearchResult(outcome, search_type, filters, algorithm, n_matches, threshold, candidates, matches) ==
    [outcome |-> outcome, search_type |-> search_type, filters |-> filters,
     algorithm |-> algorithm, n_matches |-> n_matches, threshold |-> threshold,
     candidates |-> candidates, matches |-> matches]

NoSearch == SearchResult("none", "", NoFilters, "", 0, 0, <<>>, <<>>)

\* perform_advanced_search up to its scoring loop: the search ends there with
\* a message box when there is no spectrum, no database, a filter that cannot
\* be parsed, or no candidate left by the filters
EndsBeforeScoring(self, db, widgets) ==
    \/ self.current_wavenumbers.is_none \/ self.current_intensities.is_none
    \/ db = <<>>
    \/ ParseRaises(widgets)
    \/ apply_metadata_filters(db, parse_advanced_filters(widgets)) = <<>>

\* what the search leaves on the screen when it ends before the scoring loop
EarlyResult(self, db, widgets, algorithm, n_matches, threshold) ==
    IF self.current_wavenumbers.is_none \/ self.current_intensities.is_none
    THEN SearchResult("No Data", "", NoFilters, "", 0, 0, <<>>, <<>>)
    ELSE IF db = <<>>
    THEN SearchResult("Empty Database", "", NoFilters, "", 0, 0, <<>>, <<>>)
    ELSE IF ParseRaises(widgets)
    THEN SearchResult("Advanced Search Error", "", NoFilters, algorithm,
                      n_matches, threshold, <<>>, <<>>)
    ELSE SearchResult("No Results", "", parse_advanced_filters(widgets), algorithm,
                      n_matches, threshold, <<>>, <<>>)

\* perform_advanced_search from its scoring loop on: the filtered candidates
\* are scored, or all taken by the peak-only branch, and displayed
ScoreCandidates(self, filters, filtered_candidates, algorithm, n_matches, threshold) ==
    SearchResult("displayed", SearchType(filters, algorithm), filters,
        algorithm, n_matches, threshold,
        [i \in 1..Len(filtered_candidates) |-> filtered_candidates[i].name],
        IF IsPeakOnlySearch(filters)
        THEN PeakOnlyMatches(filtered_candidates, n_matches)
        ELSE search_filtered_candidates(self, filtered_candidates,
                 algorithm, n_matches, threshold))

perform_advanced_search(self, db, widgets, algorithm, n_matches, threshold) ==
    IF EndsBeforeScoring(self, db, widgets)
    THEN EarlyResult(self, db, widgets, algorithm, n_matches, threshold)
    ELSE ScoreCandidates(self, parse_advanced_filters(widgets),
             apply_metadata_filters(db, parse_advanced_filters(widgets)),
             algorithm, n_matches, threshold)

\* f"Basic Search ({algorithm.title()})"
BasicSearchType(algorithm) ==
    IF algorithm = "DTW" THEN "Basic Search (Dtw)"
    ELSE IF algorithm = "correlation" THEN "Basic Search (Correlation)"
    ELSE IF algorithm = "peak" THEN "Basic Search (Peak)"
    ELSE "Basic Search (Combined)"

\* perform_basic_search: its loop over the database is the loop of
\* search_filtered_candidates over the candidates
perform_basic_search(self, db, algorithm, n_matches, threshold) ==
    IF self.current_wavenumbers.is_none \/ self.current_intensities.is_none
    THEN SearchResult("No Data", "", NoFilters, "", 0, 0, <<>>, <<>>)
    ELSE IF db = <<>>
    THEN SearchResult("Empty Database", "", NoFilters, "", 0, 0, <<>>, <<>>)
    ELSE SearchResult("displayed", BasicSearchType(algorithm), NoFilters,
             algorithm, n_matches, threshold,
             [i \in 1..Len(db) |-> db[i].name],
             Take(SortByScore(ScoredMatches(self, db, algorithm, threshold)),
                  n_matches))

-----------------------------------------------------------------------------
(***************************************************************************)
(* RamanSpectra (tkinter_legacy): search_match and the call of             *)
(* baseline_als.  A legacy entry is [wavenumbers, intensities, peaks], its *)
(* peaks None or the set of the rounded peak wavenumbers.  The combined    *)
(* score is in units of 1/10000; the threshold is in hundredths.           *)
(***************************************************************************)

\* (x - min) / (max - min) as numerators over one denominator; a constant
\* series is left as it is, its values being given times scale
MinMaxNormalized(x, scale) ==
    IF Max(x) > Min(x)
    THEN [num |-> [k \in 1..Len(x) |-> x[k] - Min(x)], den |-> Max(x) - Min(x)]
    ELSE [num |-> x, den |-> scale]

\* the same fractions in lower terms
DividedBy(norm, g) ==
    [num |-> [k \in 1..Len(norm.num) |-> norm.num[k] \div g], den |-> norm.den \div g]

LowestTerms(norm) == DividedBy(norm, GcdOfSeq(Append(norm.num, norm.den)))

\* data['intensities'], interpolated onto the wavenumbers of the query when
\* the two wavenumber arrays differ; values times scale
OnQueryGrid(cw, data) ==
    IF cw = data.wavenumbers
    THEN [values |-> data.intensities, scale |-> 1]
    ELSE [values |-> [k \in 1..Len(cw) |->
                         InterpScaled(cw[k], 1, data.wavenumbers, data.intensities)],
          scale |-> GapLcm(data.wavenumbers)]

\* n * sum(a * b) - sum(a) * sum(b)
Covariance(a, b) ==
    Len(a) * Sum([k \in 1..Len(a) |-> a[k] * b[k]]) - Sum(a) * Sum(b)

\* 100 * cov / sqrt(va * vb), toward zero; np.corrcoef gives NaN for a
\* constant series, which search_match replaces by 0
SignedPercent(cov, va, vb) ==
    IF va = 0 \/ vb = 0 THEN 0
    ELSE IF cov >= 0 THEN PercentOfRoot(cov * cov, va * vb)
    ELSE 0 - PercentOfRoot(cov * cov, va * vb)

\* np.corrcoef(query_norm, db_norm)[0, 1], in hundredths
corr_coef(query_norm, db_norm) ==
    SignedPercent(Covariance(query_norm.num, db_norm.num),
                  Covariance(query_norm.num, query_norm.num),
                  Covariance(db_norm.num, db_norm.num))

\* 1 / (1 + 10 * mse) in hundredths, for mse = squares / (n * den2)
MseRatio(n, den2, squares) == (100 * n * den2) \div (n * den2 + 10 * squares)

mse_score(query_norm, db_norm) ==
    MseRatio(Len(query_norm.num),
             query_norm.den * db_norm.den * query_norm.den * db_norm.den,
             Sum([k \in 1..Len(query_norm.num) |->
                     (query_norm.num[k] * db_norm.den - db_norm.num[k] * query_norm.den)
                     * (query_norm.num[k] * db_norm.den - db_norm.num[k] * query_norm.den)]))

\* the Jaccard similarity of the two sets of peak positions, in hundredths
peak_score(query_peaks, db_peaks) ==
    IF query_peaks.is_none \/ db_peaks.is_none THEN 0
    ELSE IF query_peaks.value \cup db_peaks.value = {} THEN 0
    ELSE (100 * Cardinality(query_peaks.value \cap db_peaks.value))
             \div Cardinality(query_peaks.value \cup db_peaks.value)

\* 0.6 * corr_coef + 0.2 * mse_score + 0.2 * peak_score
WeightedScore(query_norm, db_norm, query_peaks, db_peaks) ==
    60 * corr_coef(query_norm, db_norm) + 20 * mse_score(query_norm, db_norm)
        + 20 * peak_score(query_peaks, db_peaks)

\* self.processed_spectra, or self.current_spectra when nothing was processed
query_spectrum(self) ==
    IF self.processed_spectra.is_none THEN self.current_spectra
    ELSE self.processed_spectra

NormalizedOnGrid(grid) == LowestTerms(MinMaxNormalized(grid.values, grid.scale))

combined_score(self, data) ==
    WeightedScore(LowestTerms(MinMaxNormalized(query_spectrum(self).value, 1)),
                  NormalizedOnGrid(OnQueryGrid(self.current_wavenumbers.value, data)),
                  self.peaks, data.peaks)

\* matches.append((name, combined_score)) if the score reaches the threshold
AppendIfAtLeast(name, score, correlation_threshold, rest) ==
    IF score >= 100 * correlation_threshold
    THEN <<[name |-> name, score |-> score]>> \o rest
    ELSE rest

RECURSIVE LegacyMatches(_, _, _)
LegacyMatches(self, db, correlation_threshold) ==
    IF db = <<>> THEN <<>>
    ELSE AppendIfAtLeast(Head(db).name, combined_score(self, Head(db).data),
                         correlation_threshold,
                         LegacyMatches(self, Tail(db), correlation_threshold))

\* np.interp and np.corrcoef raise ValueError on an entry whose arrays are
\* empty or differ in length; search_match does not catch it
EntryRaises(data) ==
    Len(data.wavenumbers) = 0 \/ Len(data.wavenumbers) # Len(data.intensities)

\* search_match(n_matches, correlation_threshold): the exception raised
\* ("" if none) and the list returned
search_match(self, n_matches, correlation_threshold) ==
    IF query_spectrum(self).is_none
    THEN [raised |-> "ValueError", matches |-> <<>>]
    ELSE IF self.database = <<>>
    THEN [raised |-> "ValueError", matches |-> <<>>]
    ELSE IF \E i \in 1..Len(self.database) : EntryRaises(self.database[i].data)
    THEN [raised |-> "ValueError", matches |-> <<>>]
    ELSE [raised |-> "",
          matches |-> Take(SortByScore(LegacyMatches(self, self.database,
                                                      correlation_threshold)),
                           n_matches)]

\* a call baseline_als(y, lam, p, niter): the exception raised ("" if none)
\* and the baseline returned.  With niter <= 0 the loop body never runs and
\* "return z" reads an unassigned local; with lam = 0 the system solved is
\* W z = W y, whose solution is y; a negative lam as stiff as the positive
\* ones is solved like them.
baseline_als_call(y, lam, p, niter) ==
    IF niter <= 0 THEN [raised |-> "UnboundLocalError", baseline |-> <<>>]
    ELSE IF lam = 0 THEN [raised |-> "", baseline |-> y]
    ELSE [raised |-> "", baseline |-> baseline_als(y, p, niter)]

-----------------------------------------------------------------------------
(***************************************************************************)
(* The entries and widget contents the filter is exercised on.             *)
(***************************************************************************)

\* the longest 'peaks' list of an entry
MaxPeaks == 2

Txt_Oxide == <<"O","x","i","d","e">>
Txt_ox == <<"o","x">>
Txt_Sulfide == <<"S","u","l","f","i","d","e">>
Txt_SiO2 == <<"S","i","O","2">>
Txt_Fe2O3 == <<"F","e","2","O","3">>
Txt_Si_O == <<"S","i",","," ","O">>
Txt_Fe_O == <<"F","e",",","O">>
Txt_Si == <<"S","i">>
Txt_si_o == <<"s","i",","," ","o">>
Txt_Fe == <<"F","e">>
Txt_O == <<"O">>

NoMetadata == [k \in MetadataKeys |-> <<>>]

\* metadata as the database holds it: each field under one of its historical
\* key variants, or missing
FamilyMetadata ==
    {NoMetadata}
    \cup {[NoMetadata EXCEPT ![k] = v] :
             k \in {"CHEMICAL FAMILY", "Chemical Family", "CHEMICAL_FAMILY"},
             v \in {Txt_Oxide, Txt_Sulfide}}

HeyMetadata ==
    {NoMetadata}
    \cup {[NoMetadata EXCEPT ![k] = v] :
             k \in {"HEY CLASSIFICATION", "HEY_CLASSIFICATION"},
             v \in {Txt_Oxide, Txt_Sulfide}}

ElementMetadata ==
    {NoMetadata}
    \cup {[NoMetadata EXCEPT ![k] = v] :
             k \in {"CHEMISTRY ELEMENTS", "Chemistry Elements"},
             v \in {Txt_Si_O, Txt_Fe_O}}
    \cup {[NoMetadata EXCEPT ![k] = v] :
             k \in {"FORMULA", "Formula"}, v \in {Txt_SiO2, Txt_Fe2O3}}
    \cup {[NoMetadata EXCEPT !["CHEMISTRY ELEMENTS"] = Txt_Si_O, !["FORMULA"] = Txt_Fe2O3]}

MergeMetadata(a, b, c) ==
    [k \in MetadataKeys |-> IF a[k] # <<>> THEN a[k] ELSE IF b[k] # <<>> THEN b[k] ELSE c[k]]

SampleMetadata ==
    FamilyMetadata \cup HeyMetadata \cup ElementMetadata
    \cup {MergeMetadata(a, b, c) :
             a \in {[NoMetadata EXCEPT !["CHEMICAL FAMILY"] = v] : v \in {Txt_Oxide, Txt_Sulfide}},
             b \in {[NoMetadata EXCEPT !["HEY CLASSIFICATION"] = v] : v \in {Txt_Oxide, Txt_Sulfide}},
             c \in {[NoMetadata EXCEPT !["CHEMISTRY ELEMENTS"] = Txt_Si_O],
                    [NoMetadata EXCEPT !["FORMULA"] = Txt_Fe2O3]}}

\* the wavenumber arrays of the entries: none, a short one, and one with more
\* points than the wavenumber of its first peaks (51, 52, ..., 110 cm-1)
ShortWavenumbers == <<990, 1002, 1010>>

DenseWavenumbers == [i \in 1..60 |-> 50 + i]

SampleWavenumbers == {<<>>, ShortWavenumbers, DenseWavenumbers}

\* the numbers found in 'peaks' lists: small ones (indices of the legacy format,
\* in and out of range of the arrays above) and wavenumbers
PeakItemValues == {0, 2, 3, 40, 55, 1002, 1010}

SeqsUpTo(S, n) == UNION {[1..k -> S] : k \in 0..n}

NoPeaks(kind) == [kind |-> kind, items |-> <<>>, nones |-> {}]

ListPeaks ==
    {[kind |-> "list", items |-> q, nones |-> ns] :
        q \in SeqsUpTo(PeakItemValues, MaxPeaks),
        ns \in {{}, {1}}} 

DictPeaks ==
    {NoPeaks("dict_no_wavenumbers")}
    \cup {[kind |-> k, items |-> q, nones |-> {}] :
             k \in {"dict_array", "dict_list"},
             q \in SeqsUpTo({40, 1002, 1010}, MaxPeaks)}

UnusablePeaks ==
    {NoPeaks("missing"), NoPeaks("None"), NoPeaks("list"),
     NoPeaks("dict_no_wavenumbers"), NoPeaks("dict_array"), NoPeaks("dict_list")}

SamplePeaks ==
    {pk \in ListPeaks : pk.nones \subseteq 1..Len(pk.items)} \cup DictPeaks \cup UnusablePeaks

Entry(wn, md, pk) ==
    [wavenumbers |-> wn, intensities |-> [i \in 1..Len(wn) |-> 0],
     metadata |-> md, peaks |-> pk]

\* entries that differ in their peak data
PeakEntries ==
    {Entry(wn, md, pk) :
        wn \in SampleWavenumbers,
        md \in {NoMetadata, [NoMetadata EXCEPT !["CHEMICAL FAMILY"] = Txt_Oxide]},
        pk \in SamplePeaks}

\* entries that differ in their metadata
MetadataEntries ==
    {Entry(ShortWavenumbers, md, pk) :
        md \in SampleMetadata,
        pk \in {NoPeaks("missing"), NoPeaks("dict_array"),
                [kind |-> "list", items |-> <<1002>>, nones |-> {}],
                [kind |-> "dict_array", items |-> <<1002, 1010>>, nones |-> {}]}}

Txt_1000 == <<"1","0","0","0">>
Txt_1000_55 == <<"1","0","0","0",","," ","5","5">>
Txt_55 == <<"5","5">>
Txt_42 == <<"4","2">>

PeakTexts == {<<>>, Txt_1000, Txt_55, Txt_42, Txt_1000_55}

ToleranceValues == {1, 5, 10}

NoWidgets ==
    [peak_positions_edit |-> <<>>, peak_tolerance_spin |-> DefaultPeakTolerance,
     chemical_family_combo |-> <<>>, hey_classification_combo |-> <<>>,
     only_elements_edit |-> <<>>, required_elements_edit |-> <<>>,
     exclude_elements_edit |-> <<>>]

\* widget contents that vary the peak filter
PeakWidgets ==
    {[NoWidgets EXCEPT !.peak_positions_edit = pt, !.peak_tolerance_spin = tol,
                       !.chemical_family_combo = cf] :
        pt \in PeakTexts, tol \in ToleranceValues, cf \in {<<>>, Txt_ox}}

\* widget contents that vary every filter
AllWidgets ==
    {[peak_positions_edit |-> pt, peak_tolerance_spin |-> 5,
      chemical_family_combo |-> cf, hey_classification_combo |-> hc,
      only_elements_edit |-> oe, required_elements_edit |-> re,
      exclude_elements_edit |-> xe] :
        pt \in {<<>>, Txt_1000},
        cf \in {<<>>, Txt_ox}, hc \in {<<>>, Txt_ox},
        oe \in {<<>>, Txt_si_o}, re \in {<<>>, Txt_Si, Txt_O},
        xe \in {<<>>, Txt_Fe, Txt_Si}}

\* the (entry, filter set) pairs spectrum_passes_filters is called with
FilterCases ==
    (PeakEntries \X {parse_advanced_filters(w) : w \in PeakWidgets})
    \cup (MetadataEntries \X {parse_advanced_filters(w) : w \in AllWidgets})

-----------------------------------------------------------------------------
(***************************************************************************)
(* The application as a state machine: one action per user event, each     *)
(* running the whole handler (or handlers) Qt connects to it.              *)
(***************************************************************************)

\* the most handler calls of the preprocessing tab in one behaviour
MaxHandled == 6

\* what parse_spectrum_file finds in the files the user can pick
File5 == [wavenumbers |-> <<100, 200, 300, 400, 500>>,
          intensities |-> <<10, 50, 20, 80, 40>>]

File3 == [wavenumbers |-> <<100, 200, 300>>, intensities |-> <<10, 60, 20>>]

FileNoData == [wavenumbers |-> <<>>, intensities |-> <<>>]

\* a file with a single data row
File1 == [wavenumbers |-> <<100>>, intensities |-> <<10>>]

SpectrumFiles == {File5, File3, File1, FileNoData}

BgMethods == {"ALS (Asymmetric Least Squares)", "Linear", "Polynomial", "Moving Average"}

PSliderValues == {10, 50}

HeightSliderValues == {0, 10}

DistanceSliderValues == {1, 10}

ProminenceSliderValues == {0, 5}

SgWindowValues == {3, 5}

SgOrderValues == {1, 2}

\* the attributes of the application object
Self ==
    [current_wavenumbers |-> current_wavenumbers,
     current_intensities |-> current_intensities,
     processed_intensities |-> processed_intensities,
     processed_shares_current |-> processed_shares_current,
     detected_peaks |-> detected_peaks,
     background_preview_active |-> background_preview_active,
     smoothing_preview_active |-> smoothing_preview_active,
     preview_background |-> preview_background,
     preview_corrected |-> preview_corrected,
     preview_smoothed |-> preview_smoothed,
     fastdtw |-> fastdtw_available,
     raised |-> ""]

\* the values of the widgets of the preprocessing tab
Widgets ==
    [bg_method_combo |-> bg_method_combo, p_slider |-> p_slider,
     height_slider |-> height_slider, distance_slider |-> distance_slider,
     prominence_slider |-> prominence_slider,
     sg_window_spin |-> sg_window_spin, sg_order_spin |-> sg_order_spin]

\* the handler returned (or raised) leaving the attributes self
Becomes(handler, self) ==
    /\ current_wavenumbers' = self.current_wavenumbers
    /\ current_intensities' = self.current_intensities
    /\ processed_intensities' = self.processed_intensities
    /\ processed_shares_current' = self.processed_shares_current
    /\ detected_peaks' = self.detected_peaks
    /\ background_preview_active' = self.background_preview_active
    /\ smoothing_preview_active' = self.smoothing_preview_active
    /\ preview_background' = self.preview_background
    /\ preview_corrected' = self.preview_corrected
    /\ preview_smoothed' = self.preview_smoothed
    /\ last_handler' = handler
    /\ last_error' = self.raised
    /\ handled' = handled + 1

\* RamanAnalysisAppQt6.__init__
InitApp ==
    /\ current_wavenumbers = None
    /\ current_intensities = None
    /\ processed_intensities = None
    /\ processed_shares_current = FALSE
    /\ detected_peaks = None
    /\ background_preview_active = FALSE
    /\ smoothing_preview_active = FALSE
    /\ preview_background = None
    /\ preview_corrected = None
    /\ preview_smoothed = None
    /\ bg_method_combo = "ALS (Asymmetric Least Squares)"
    /\ p_slider = 10
    /\ height_slider = 10
    /\ distance_slider = 10
    /\ prominence_slider = 5
    /\ sg_window_spin = 5
    /\ sg_order_spin = 2
    /\ last_handler = ""
    /\ last_error = ""
    /\ handled = 0

\* no call of spectrum_passes_filters is under test
FilterIdle ==
    /\ f_name = "entry"
    /\ f_data = Entry(<<>>, NoMetadata, NoPeaks("missing"))
    /\ f_filters = NoFilters
    /\ f_pc = "idle"
    /\ f_result = FALSE

\* no call of baseline_als is under test
AlsIdle ==
    als_call = [y |-> <<>>, lam |-> 0, p |-> 0, niter |-> 0, pc |-> "idle",
                raised |-> "", baseline |-> <<>>]

\* no call of search_match is under test
SearchMatchIdle ==
    legacy_search = [current_wavenumbers |-> None, current_spectra |-> None,
                     processed_spectra |-> None, peaks |-> None, database |-> <<>>, n_matches |-> 0,
                     correlation_threshold |-> 0, pc |-> "idle", raised |-> "",
                     matches |-> <<>>]

\* no call of match_mineral_name is under test
ResolverIdle ==
    resolver_call = [hey_classification |-> <<>>, mineral_name |-> <<>>,
                     threshold |-> 0, pc |-> "idle",
                     result |-> [name |-> None, record |-> None]]

\* no legacy database is being written
StoreIdle ==
    legacy_store = [current_wavenumbers |-> None, current_spectra |-> None,
                    database |-> <<>>, pc |-> "idle", last_call |-> "",
                    name |-> <<>>, returned |-> FALSE, calls |-> 0]

LegacyIdle == AlsIdle /\ SearchMatchIdle /\ ResolverIdle /\ StoreIdle

\* no search is stopped in processEvents and no import thread was started
EventsIdle ==
    /\ search_call = [pc |-> "idle", widgets |-> NoWidgets, candidates |-> <<>>,
                      algorithm |-> "", n_matches |-> 0, threshold |-> 0,
                      writes |-> 0]
    /\ import_worker = [pc |-> "not started", cancelled |-> FALSE, todo |-> <<>>,
                        signals |-> <<>>, signals_at_cancel |-> 0]

\* no search is under way; the handlers of the preprocessing tab and the
\* metadata filter never import fastdtw
SearchIdle ==
    /\ database = <<>>
    /\ search_results = NoSearch
    /\ fastdtw_available = FALSE

\* import_spectrum: the user picks a file
ImportSpectrum ==
    /\ handled < MaxHandled
    /\ \E file \in SpectrumFiles : Becomes("load_spectrum_file", load_spectrum_file(Self, file))
    /\ UNCHANGED <<widget_vars, filter_vars, search_vars, legacy_vars,
                   event_vars>>

\* bg_method_combo.currentTextChanged: on_bg_method_changed, then
\* preview_background_subtraction
BgMethodChanged ==
    /\ handled < MaxHandled
    /\ \E method \in BgMethods \ {bg_method_combo} :
          /\ bg_method_combo' = method
          /\ LET changed   == on_bg_method_changed(Self)
                 previewed == preview_background_subtraction(
                                  [changed EXCEPT !.raised = ""],
                                  [Widgets EXCEPT !.bg_method_combo = method])
             IN  Becomes("preview_background_subtraction", [previewed EXCEPT !.raised =
                             IF changed.raised # "" THEN changed.raised
                             ELSE previewed.raised])
    /\ UNCHANGED <<p_slider, height_slider, distance_slider, prominence_slider,
                   sg_window_spin, sg_order_spin, filter_vars, search_vars, legacy_vars,
                   event_vars>>

\* p_slider.valueChanged: preview_background_subtraction
PSliderChanged ==
    /\ handled < MaxHandled
    /\ \E v \in PSliderValues \ {p_slider} :
          /\ p_slider' = v
          /\ Becomes("preview_background_subtraction", preview_background_subtraction(Self, [Widgets EXCEPT !.p_slider = v]))
    /\ UNCHANGED <<bg_method_combo, height_slider, distance_slider, prominence_slider,
                   sg_window_spin, sg_order_spin, filter_vars, search_vars, legacy_vars,
                   event_vars>>

\* subtract_btn.clicked
ApplyBackgroundSubtraction ==
    /\ handled < MaxHandled
    /\ Becomes("apply_background_subtraction", apply_background_subtraction(Self, Widgets))
    /\ UNCHANGED <<widget_vars, filter_vars, search_vars, legacy_vars,
                   event_vars>>

\* preview_btn.clicked
ClearBackgroundPreview ==
    /\ handled < MaxHandled
    /\ Becomes("clear_background_preview", clear_background_preview(Self))
    /\ UNCHANGED <<widget_vars, filter_vars, search_vars, legacy_vars,
                   event_vars>>

\* reset_btn.clicked
ResetSpectrum ==
    /\ handled < MaxHandled
    /\ Becomes("reset_spectrum", reset_spectrum(Self))
    /\ UNCHANGED <<widget_vars, filter_vars, search_vars, legacy_vars,
                   event_vars>>

\* height_slider.valueChanged: update_peak_detection
HeightSliderChanged ==
    /\ handled < MaxHandled
    /\ \E v \in HeightSliderValues \ {height_slider} :
          /\ height_slider' = v
          /\ Becomes("update_peak_detection", update_peak_detection(Self, [Widgets EXCEPT !.height_slider = v]))
    /\ UNCHANGED <<bg_method_combo, p_slider, distance_slider, prominence_slider,
                   sg_window_spin, sg_order_spin, filter_vars, search_vars, legacy_vars,
                   event_vars>>

\* distance_slider.valueChanged: update_peak_detection
DistanceSliderChanged ==
    /\ handled < MaxHandled
    /\ \E v \in DistanceSliderValues \ {distance_slider} :
          /\ distance_slider' = v
          /\ Becomes("update_peak_detection", update_peak_detection(Self, [Widgets EXCEPT !.distance_slider = v]))
    /\ UNCHANGED <<bg_method_combo, p_slider, height_slider, prominence_slider,
                   sg_window_spin, sg_order_spin, filter_vars, search_vars, legacy_vars,
                   event_vars>>

\* prominence_slider.valueChanged: update_peak_detection
ProminenceSliderChanged ==
    /\ handled < MaxHandled
    /\ \E v \in ProminenceSliderValues \ {prominence_slider} :
          /\ prominence_slider' = v
          /\ Becomes("update_peak_detection", update_peak_detection(Self, [Widgets EXCEPT !.prominence_slider = v]))
    /\ UNCHANGED <<bg_method_combo, p_slider, height_slider, distance_slider,
                   sg_window_spin, sg_order_spin, filter_vars, search_vars, legacy_vars,
                   event_vars>>

\* detect_btn.clicked: find_peaks
FindPeaks ==
    /\ handled < MaxHandled
    /\ Becomes("update_peak_detection", update_peak_detection(Self, Widgets))
    /\ UNCHANGED <<widget_vars, filter_vars, search_vars, legacy_vars,
                   event_vars>>

\* sg_window_spin.valueChanged: preview_smoothing
SgWindowChanged ==
    /\ handled < MaxHandled
    /\ \E v \in SgWindowValues \ {sg_window_spin} :
          /\ sg_window_spin' = v
          /\ Becomes("preview_smoothing", preview_smoothing(Self, [Widgets EXCEPT !.sg_window_spin = v]))
    /\ UNCHANGED <<bg_method_combo, p_slider, height_slider, distance_slider,
                   prominence_slider, sg_order_spin, filter_vars, search_vars, legacy_vars,
                   event_vars>>

\* sg_order_spin.valueChanged: preview_smoothing
SgOrderChanged ==
    /\ handled < MaxHandled
    /\ \E v \in SgOrderValues \ {sg_order_spin} :
          /\ sg_order_spin' = v
          /\ Becomes("preview_smoothing", preview_smoothing(Self, [Widgets EXCEPT !.sg_order_spin = v]))
    /\ UNCHANGED <<bg_method_combo, p_slider, height_slider, distance_slider,
                   prominence_slider, sg_window_spin, filter_vars, search_vars, legacy_vars,
                   event_vars>>

\* smooth_btn.clicked
ApplySmoothing ==
    /\ handled < MaxHandled
    /\ Becomes("apply_smoothing", apply_smoothing(Self, Widgets))
    /\ UNCHANGED <<widget_vars, filter_vars, search_vars, legacy_vars,
                   event_vars>>

\* clear_smooth_btn.clicked
ClearSmoothingPreview ==
    /\ handled < MaxHandled
    /\ Becomes("clear_smoothing_preview", clear_smoothing_preview(Self))
    /\ UNCHANGED <<widget_vars, filter_vars, search_vars, legacy_vars,
                   event_vars>>

Init ==
    /\ InitApp
    /\ FilterIdle
    /\ SearchIdle
    /\ LegacyIdle
    /\ EventsIdle

Next ==
    \/ ImportSpectrum
    \/ BgMethodChanged
    \/ PSliderChanged
    \/ ApplyBackgroundSubtraction
    \/ ClearBackgroundPreview
    \/ ResetSpectrum
    \/ HeightSliderChanged
    \/ DistanceSliderChanged
    \/ ProminenceSliderChanged
    \/ FindPeaks
    \/ SgWindowChanged
    \/ SgOrderChanged
    \/ ApplySmoothing
    \/ ClearSmoothingPreview

Spec == Init /\ [][Next]_vars

-----------------------------------------------------------------------------
(***************************************************************************)
(* SpecFilter: one call of spectrum_passes_filters on an (entry, filters)  *)
(* pair.                                                                   *)
(***************************************************************************)

InitFilter ==
    /\ f_name = "entry"
    /\ \E c \in FilterCases : f_data = c[1] /\ f_filters = c[2]
    /\ f_pc = "call"
    /\ f_result = FALSE
    /\ InitApp
    /\ SearchIdle
    /\ LegacyIdle
    /\ EventsIdle

CallSpectrumPassesFilters ==
    /\ f_pc = "call"
    /\ f_pc' = "done"
    /\ f_result' = spectrum_passes_filters(f_name, f_data, f_filters)
    /\ UNCHANGED <<f_name, f_data, f_filters, app_vars, search_vars, legacy_vars,
                   event_vars>>

NextFilter == CallSpectrumPassesFilters

SpecFilter == InitFilter /\ [][NextFilter]_vars

-----------------------------------------------------------------------------
(***************************************************************************)
(* SpecSearch: advanced searches of a database with a query spectrum.      *)
(***************************************************************************)

\* the most entries of the database
MaxDb == 3

Txt_Albite == <<"A","l","b","i","t","e">>
Txt_Calcite == <<"C","a","l","c","i","t","e">>
Txt_Quartz == <<"Q","u","a","r","t","z">>
Txt_Rutile == <<"R","u","t","i","l","e">>
Txt_400 == <<"4","0","0">>
Txt_4x == <<"4","x">>

\* database items: the spectrum of File5 with its two peaks, a falling
\* spectrum with a listed peak, a three-point spectrum, a flat spectrum
\* without peak data
SampleItems ==
    {[name |-> Txt_Albite,
      data |-> [wavenumbers |-> <<100, 200, 300, 400, 500>>,
                intensities |-> <<10, 50, 20, 80, 40>>,
                metadata |-> [NoMetadata EXCEPT !["CHEMICAL FAMILY"] = Txt_Oxide],
                peaks |-> [kind |-> "dict_array", items |-> <<200, 400>>, nones |-> {}]]],
     [name |-> Txt_Quartz,
      data |-> [wavenumbers |-> <<100, 200, 300, 400, 500>>,
                intensities |-> <<40, 30, 20, 30, 10>>,
                metadata |-> [NoMetadata EXCEPT !["Chemical Family"] = Txt_Oxide],
                peaks |-> [kind |-> "list", items |-> <<405>>, nones |-> {}]]],
     [name |-> Txt_Calcite,
      data |-> [wavenumbers |-> <<100, 200, 300>>,
                intensities |-> <<10, 60, 20>>,
                metadata |-> [NoMetadata EXCEPT !["CHEMICAL FAMILY"] = Txt_Sulfide],
                peaks |-> [kind |-> "dict_array", items |-> <<200>>, nones |-> {}]]],
     [name |-> Txt_Rutile,
      data |-> [wavenumbers |-> <<100, 200, 300, 400, 500>>,
                intensities |-> <<10, 10, 10, 10, 10>>,
                metadata |-> NoMetadata,
                peaks |-> NoPeaks("missing")]]}

\* the databases: the items of a dict have distinct names
SampleDatabases ==
    {db \in SeqsUpTo(SampleItems, MaxDb) :
        \A i, j \in 1..Len(db) : i # j => db[i].name # db[j].name}

\* the widgets of the advanced search tab
SearchWidgets ==
    {[NoWidgets EXCEPT !.peak_positions_edit = pt, !.chemical_family_combo = cf] :
        pt \in {<<>>, Txt_400, Txt_4x}, cf \in {<<>>, Txt_ox}}

AlgorithmValues == {"correlation", "peak"}

NMatchesValues == {1, 2, 10}

\* adv_threshold_spin, in hundredths
ThresholdValues == {0, 30, 90}

\* the attributes before any handler ran
InitSelf ==
    [current_wavenumbers |-> None, current_intensities |-> None,
     processed_intensities |-> None, processed_shares_current |-> FALSE,
     detected_peaks |-> None,
     background_preview_active |-> FALSE, smoothing_preview_active |-> FALSE,
     preview_background |-> None, preview_corrected |-> None,
     preview_smoothed |-> None, fastdtw |-> FALSE, raised |-> ""]

\* the widgets of the preprocessing tab as __init__ leaves them
InitWidgets ==
    [bg_method_combo |-> "ALS (Asymmetric Least Squares)", p_slider |-> 10,
     height_slider |-> 10, distance_slider |-> 10, prominence_slider |-> 5,
     sg_window_spin |-> 5, sg_order_spin |-> 2]

\* the query the searches start from: nothing loaded, a spectrum loaded, a
\* spectrum loaded and its peaks detected
QueryStates ==
    {InitSelf}
    \cup {load_spectrum_file(InitSelf, file) : file \in {File5, File3}}
    \cup {update_peak_detection(load_spectrum_file(InitSelf, file), InitWidgets) :
             file \in {File5, File3}}

InitSearch ==
    /\ \E query \in QueryStates :
          /\ current_wavenumbers = query.current_wavenumbers
          /\ current_intensities = query.current_intensities
          /\ processed_intensities = query.processed_intensities
          /\ processed_shares_current = query.processed_shares_current
          /\ detected_peaks = query.detected_peaks
    /\ background_preview_active = FALSE
    /\ smoothing_preview_active = FALSE
    /\ preview_background = None
    /\ preview_corrected = None
    /\ preview_smoothed = None
    /\ bg_method_combo = InitWidgets.bg_method_combo
    /\ p_slider = InitWidgets.p_slider
    /\ height_slider = InitWidgets.height_slider
    /\ distance_slider = InitWidgets.distance_slider
    /\ prominence_slider = InitWidgets.prominence_slider
    /\ sg_window_spin = InitWidgets.sg_window_spin
    /\ sg_order_spin = InitWidgets.sg_order_spin
    /\ last_handler = ""
    /\ last_error = ""
    /\ handled = 0
    /\ FilterIdle
    /\ LegacyIdle
    /\ EventsIdle
    /\ database \in SampleDatabases
    /\ search_results = NoSearch
    /\ fastdtw_available = FALSE

\* adv_search_btn.clicked with the widgets of the search tab set by the user.
\* What a search displays does not depend on what the search before it
\* displayed, so the searches taken are the first ones of a session.
PerformAdvancedSearch ==
    /\ search_results = NoSearch
    /\ \E widgets \in SearchWidgets, algorithm \in AlgorithmValues,
          n_matches \in NMatchesValues, threshold \in ThresholdValues :
          search_results' = perform_advanced_search(Self, database, widgets,
                                                    algorithm, n_matches, threshold)
    /\ UNCHANGED <<filter_vars, app_vars, database, fastdtw_available, legacy_vars,
                   event_vars>>

NextSearch == PerformAdvancedSearch

SpecSearch == InitSearch /\ [][NextSearch]_vars

-----------------------------------------------------------------------------
(***************************************************************************)
(* SpecScore: basic searches, which score every entry of the database.     *)
(***************************************************************************)

\* the most entries of the database that is scored
MaxCandidates == 2

Txt_Broken == <<"B","r","o","k","e","n">>
Txt_Zircon == <<"Z","i","r","c","o","n">>

\* a spectrum with a peak 10 cm-1 below its upper end
FileNarrow == [wavenumbers |-> <<480, 490, 500>>, intensities |-> <<10, 60, 20>>]

\* two more database items: an entry whose arrays differ in length (np.interp
\* raises on it), and an entry whose range starts 2 cm-1 above the range of
\* every query spectrum
ScoreItems ==
    SampleItems
    \cup {[name |-> Txt_Broken,
           data |-> [wavenumbers |-> <<100, 200, 300, 400, 500>>,
                     intensities |-> <<10, 60, 20>>,
                     metadata |-> NoMetadata,
                     peaks |-> NoPeaks("missing")]],
          [name |-> Txt_Zircon,
           data |-> [wavenumbers |-> <<502, 505, 510>>,
                     intensities |-> <<10, 60, 20>>,
                     metadata |-> NoMetadata,
                     peaks |-> NoPeaks("missing")]]}

ScoreDatabases ==
    {db \in SeqsUpTo(ScoreItems, MaxCandidates) :
        \A i, j \in 1..Len(db) : i # j => db[i].name # db[j].name}

\* algorithm_combo
BasicAlgorithmValues == {"correlation", "peak", "combined", "DTW"}

\* n_matches_spin: 1 and the default
BasicNMatchesValues == {1, 10}

\* threshold_spin, in hundredths: 0.0, 0.3, the default 0.7, 0.9
BasicThresholdValues == {0, 30, 70, 90}

\* the query the searches start from: nothing loaded, a spectrum loaded, a
\* spectrum loaded and its peaks detected
ScoreQueryStates ==
    {InitSelf, load_spectrum_file(InitSelf, File5)}
    \cup {update_peak_detection(load_spectrum_file(InitSelf, file), InitWidgets) :
             file \in {File5, FileNarrow}}

InitScore ==
    /\ \E query \in ScoreQueryStates :
          /\ current_wavenumbers = query.current_wavenumbers
          /\ current_intensities = query.current_intensities
          /\ processed_intensities = query.processed_intensities
          /\ processed_shares_current = query.processed_shares_current
          /\ detected_peaks = query.detected_peaks
    /\ background_preview_active = FALSE
    /\ smoothing_preview_active = FALSE
    /\ preview_background = None
    /\ preview_corrected = None
    /\ preview_smoothed = None
    /\ bg_method_combo = InitWidgets.bg_method_combo
    /\ p_slider = InitWidgets.p_slider
    /\ height_slider = InitWidgets.height_slider
    /\ distance_slider = InitWidgets.distance_slider
    /\ prominence_slider = InitWidgets.prominence_slider
    /\ sg_window_spin = InitWidgets.sg_window_spin
    /\ sg_order_spin = InitWidgets.sg_order_spin
    /\ last_handler = ""
    /\ last_error = ""
    /\ handled = 0
    /\ FilterIdle
    /\ LegacyIdle
    /\ EventsIdle
    /\ database \in ScoreDatabases
    /\ search_results = NoSearch
    /\ fastdtw_available \in BOOLEAN

\* search_btn.clicked with the widgets of the basic search tab set by the user
PerformBasicSearch ==
    /\ search_results = NoSearch
    /\ \E algorithm \in BasicAlgorithmValues, n_matches \in BasicNMatchesValues,
          threshold \in BasicThresholdValues :
          search_results' = perform_basic_search(Self, database, algorithm,
                                                 n_matches, threshold)
    /\ UNCHANGED <<filter_vars, app_vars, database, fastdtw_available, legacy_vars,
                   event_vars>>

NextScore == PerformBasicSearch

SpecScore == InitScore /\ [][NextScore]_vars

-----------------------------------------------------------------------------
(***************************************************************************)
(* RamanSpectra (tkinter_legacy): the mineral name resolver and the        *)
(* database writes.  A dict is the sequence of its (key, value) pairs in   *)
(* insertion order.  A classification record is the metadata dict of one   *)
(* row of the classification table, [hey |-> the classification]; a        *)
(* similarity ratio is the pair of integers of 2 * M / T.                  *)
(***************************************************************************)

\* key in d
DictHas(d, key) == \E i \in 1..Len(d) : d[i].key = key

\* d[key]
DictGet(d, key) == d[CHOOSE i \in 1..Len(d) : d[i].key = key].value

\* d[key] = value: an existing key keeps its place
DictSet(d, key, value) ==
    IF DictHas(d, key)
    THEN [i \in 1..Len(d) |-> IF d[i].key = key
                              THEN [key |-> key, value |-> value] ELSE d[i]]
    ELSE Append(d, [key |-> key, value |-> value])

\* del d[key]
DictDel(d, key) == SelectSeq(d, LAMBDA item : item.key # key)

\* s.endswith(suffix)
EndsWith(s, suffix) ==
    Len(s) >= Len(suffix) /\ SubSeq(s, Len(s) - Len(suffix) + 1, Len(s)) = suffix

\* s.startswith(prefix)
StartsWith(s, prefix) ==
    Len(s) >= Len(prefix) /\ SubSeq(s, 1, Len(prefix)) = prefix

\* common_suffixes of _clean_mineral_name
common_suffixes ==
    <<<<"-","t","y","p","e">>,
      <<" ","v","a","r",".">>,
      <<" ","v","a","r"," ">>,
      <<" ","g","r","o","u","p">>,
      <<" ","s","e","r","i","e","s">>,
      <<" ","f","a","m","i","l","y">>,
      <<" ","l","i","k","e">>,
      <<" ","s","t","r","u","c","t","u","r","e">>,
      <<" ","f","o","r","m">>,
      <<"-","r","i","c","h">>,
      <<"-","p","o","o","r">>>>

\* common_prefixes of _clean_mineral_name
common_prefixes ==
    <<<<"h","y","d","r","o">>,
      <<"m","e","t","a">>,
      <<"p","a","r","a">>,
      <<"p","r","o","t","o">>,
      <<"p","s","e","u","d","o">>,
      <<"o","r","t","h","o">>,
      <<"c","l","i","n","o">>>>

\* the loop over common_suffixes: the first suffix the name ends with is cut
\* and the loop left
RECURSIVE WithoutSuffix(_, _)
WithoutSuffix(cleaned, suffixes) ==
    IF suffixes = <<>> THEN cleaned
    ELSE IF EndsWith(cleaned, Head(suffixes))
         THEN strip(SubSeq(cleaned, 1, Len(cleaned) - Len(Head(suffixes))))
         ELSE WithoutSuffix(cleaned, Tail(suffixes))

\* the loop over common_prefixes: the first prefix the name starts with, and is more
\* than one character longer than, is cut and the loop left
RECURSIVE WithoutPrefix(_, _)
WithoutPrefix(cleaned, prefs) ==
    IF prefs = <<>> THEN cleaned
    ELSE IF StartsWith(cleaned, Head(prefs)) /\ Len(cleaned) > Len(Head(prefs)) + 1
         THEN strip(SubSeq(cleaned, Len(Head(prefs)) + 1, Len(cleaned)))
         ELSE WithoutPrefix(cleaned, Tail(prefs))

\* c.isalnum() or c.isspace()
IsAlnumOrSpace(c) == IsUpperChar(c) \/ IsLowerChar(c) \/ IsDigitChar(c) \/ c = " "

\* ' '.join(s.split()): no space at either end, one space between words
RECURSIVE JoinedWords(_)
JoinedWords(s) ==
    IF s = <<>> THEN s
    ELSE IF Head(s) = " " THEN JoinedWords(Tail(s))
    ELSE IF \A i \in 1..Len(s) : s[i] # " " THEN s
    ELSE LET i == CHOOSE k \in 1..Len(s) :
                      s[k] = " " /\ \A j \in 1..(k - 1) : s[j] # " "
             rest == JoinedWords(SubSeq(s, i + 1, Len(s)))
         IN  IF rest = <<>> THEN SubSeq(s, 1, i - 1)
             ELSE SubSeq(s, 1, i - 1) \o <<" ">> \o rest

\* RamanSpectra._clean_mineral_name
clean_mineral_name(name) ==
    IF name = <<>> THEN <<>>
    ELSE JoinedWords(SelectSeq(
             WithoutPrefix(WithoutSuffix(strip(lower(name)), common_suffixes),
                           common_prefixes),
             IsAlnumOrSpace))

\* one row of the classification table stored: under the name and, when the
\* cleaned name differs, under the cleaned name too
StoreRow(hey_classification, row) ==
    IF row.name = <<>> \/ row.classification = <<>> THEN hey_classification
    ELSE IF clean_mineral_name(row.name) # row.name
         THEN DictSet(DictSet(hey_classification, row.name,
                              [hey |-> row.classification]),
                      clean_mineral_name(row.name), [hey |-> row.classification])
         ELSE DictSet(hey_classification, row.name, [hey |-> row.classification])

\* RamanSpectra.load_hey_classification: the dict built from the rows
RECURSIVE load_hey_classification(_)
load_hey_classification(rows) ==
    IF rows = <<>> THEN <<>>
    ELSE StoreRow(load_hey_classification(SubSeq(rows, 1, Len(rows) - 1)),
                  rows[Len(rows)])

\* the blocks a[i+1 .. i+k] = b[j+1 .. j+k] of k characters
BlocksOfSize(a, b, k) ==
    {ij \in (0..(Len(a) - k)) \X (0..(Len(b) - k)) :
        SubSeq(a, ij[1] + 1, ij[1] + k) = SubSeq(b, ij[2] + 1, ij[2] + k)}

\* SequenceMatcher.find_longest_match: the longest block, of those the one
\* that starts first in a, of those the one that starts first in b
LongestMatch(a, b) ==
    LET k  == CHOOSE n \in 0..Smaller(Len(a), Len(b)) :
                  /\ BlocksOfSize(a, b, n) # {}
                  /\ \A m \in (n + 1)..Smaller(Len(a), Len(b)) : BlocksOfSize(a, b, m) = {}
        ij == CHOOSE x \in BlocksOfSize(a, b, k) :
                  \A y \in BlocksOfSize(a, b, k) :
                      x[1] < y[1] \/ (x[1] = y[1] /\ x[2] <= y[2])
    IN  [i |-> ij[1], j |-> ij[2], size |-> k]

\* the characters in the matching blocks of SequenceMatcher.get_matching_blocks:
\* the longest match, then the same left of it and right of it
RECURSIVE MatchingCharacters(_, _)
MatchingCharacters(a, b) ==
    IF a = <<>> \/ b = <<>> THEN 0
    ELSE LET match == LongestMatch(a, b)
         IN  IF match.size = 0 THEN 0
             ELSE match.size
                  + MatchingCharacters(SubSeq(a, 1, match.i), SubSeq(b, 1, match.j))
                  + MatchingCharacters(
                        SubSeq(a, match.i + match.size + 1, Len(a)),
                        SubSeq(b, match.j + match.size + 1, Len(b)))

\* SequenceMatcher(None, a, b).ratio() = 2 * M / T, 1 when both are empty
Ratio(a, b) ==
    IF Len(a) + Len(b) = 0 THEN [num |-> 1, den |-> 1]
    ELSE [num |-> 2 * MatchingCharacters(a, b), den |-> Len(a) + Len(b)]

\* ratio > best_score
RatioAbove(ratio, best_score) == ratio.num * best_score.den > best_score.num * ratio.den

\* ratio >= threshold, the threshold in hundredths
RatioReaches(ratio, threshold) == 100 * ratio.num >= threshold * ratio.den

\* the result (None, None)
NoMatch == [name |-> None, record |-> None]

\* the first key whose lower-cased form contains name_to_match
SubstringMatch(hey_classification, name_to_match) ==
    LET hits == {i \in 1..Len(hey_classification) :
                     StrContains(name_to_match, lower(hey_classification[i].key))}
    IN  IF hits = {} THEN 0 ELSE CHOOSE i \in hits : \A j \in hits : i <= j

\* the fuzzy step with the threshold test left out
RECURSIVE FuzzyBest_AnyRatio(_, _, _, _)
FuzzyBest_AnyRatio(hey_classification, name_to_match, threshold, k) ==
    IF k = 0 THEN [best_match |-> 0, best_score |-> [num |-> 0, den |-> 1]]
    ELSE LET before == FuzzyBest_AnyRatio(hey_classification, name_to_match,
                                          threshold, k - 1)
             ratio  == Ratio(name_to_match, lower(hey_classification[k].key))
         IN  IF RatioAbove(ratio, before.best_score)
             THEN [best_match |-> k, best_score |-> ratio]
             ELSE before

\* the loop of the fuzzy step over the first k items: best_match (0 for None)
\* and best_score
RECURSIVE FuzzyBest(_, _, _, _)
FuzzyBest(hey_classification, name_to_match, threshold, k) ==
    IF k = 0 THEN [best_match |-> 0, best_score |-> [num |-> 0, den |-> 1]]
    ELSE LET before == FuzzyBest(hey_classification, name_to_match, threshold, k - 1)
             ratio  == Ratio(name_to_match, lower(hey_classification[k].key))
         IN  IF RatioAbove(ratio, before.best_score) /\ RatioReaches(ratio, threshold)
             THEN [best_match |-> k, best_score |-> ratio]
             ELSE before

\* the steps of match_mineral_name after the exact match: the cleaned name as
\* a key, as a part of a key, as the most similar key
MatchCleaned(hey_classification, name_to_match, threshold) ==
    IF DictHas(hey_classification, name_to_match)
    THEN [name |-> Some(name_to_match),
          record |-> Some(DictGet(hey_classification, name_to_match))]
    ELSE IF SubstringMatch(hey_classification, name_to_match) # 0
    THEN [name |-> Some(hey_classification[
                       SubstringMatch(hey_classification, name_to_match)].key),
          record |-> Some(hey_classification[
                       SubstringMatch(hey_classification, name_to_match)].value)]
    ELSE LET best == FuzzyBest(hey_classification, name_to_match, threshold,
                               Len(hey_classification)).best_match
         IN  IF best # 0 /\ hey_classification[best].key # <<>>
             THEN [name |-> Some(hey_classification[best].key),
                   record |-> Some(hey_classification[best].value)]
             ELSE NoMatch

\* RamanSpectra.match_mineral_name(mineral_name, threshold), the threshold in
\* hundredths
match_mineral_name(hey_classification, mineral_name, threshold) ==
    IF mineral_name = <<>> \/ hey_classification = <<>> THEN NoMatch
    ELSE IF clean_mineral_name(mineral_name) = <<>> THEN NoMatch
    ELSE IF DictHas(hey_classification, mineral_name)
    THEN [name |-> Some(mineral_name),
          record |-> Some(DictGet(hey_classification, mineral_name))]
    ELSE MatchCleaned(hey_classification, clean_mineral_name(mineral_name), threshold)

\* add_to_database that keeps the entry a name already has
add_to_database_KeepsExisting(self, name) ==
    IF self.current_spectra.is_none \/ self.current_wavenumbers.is_none
    THEN [self |-> self, returned |-> FALSE]
    ELSE IF DictHas(self.database, name) THEN [self |-> self, returned |-> TRUE]
    ELSE [self |-> [self EXCEPT !.database =
                       Append(self.database,
                              [key |-> name,
                               value |-> [wavenumbers |-> self.current_wavenumbers.value,
                                          intensities |-> self.current_spectra.value]])],
          returned |-> TRUE]

\* RamanSpectra.add_to_database(name): the object after the call and the
\* value returned; the entry holds the spectrum loaded
add_to_database(self, name) ==
    IF self.current_spectra.is_none \/ self.current_wavenumbers.is_none
    THEN [self |-> self, returned |-> FALSE]
    ELSE [self |-> [self EXCEPT !.database =
                       DictSet(self.database, name,
                               [wavenumbers |-> self.current_wavenumbers.value,
                                intensities |-> self.current_spectra.value])],
          returned |-> TRUE]

\* RamanSpectra.remove_from_database(name)
remove_from_database(self, name) ==
    IF DictHas(self.database, name)
    THEN [self |-> [self EXCEPT !.database = DictDel(self.database, name)],
          returned |-> TRUE]
    ELSE [self |-> self, returned |-> FALSE]

-----------------------------------------------------------------------------
(***************************************************************************)
(* RamanAnalysisAppQt6: what the event loop runs while a search is stopped *)
(* in QApplication.processEvents().  The handlers run on the one GUI       *)
(* thread; processEvents dispatches the pending events, a click on "Add to *)
(* Database" among them, before the search goes on.                        *)
(***************************************************************************)

\* self.raman_db.database[name] = data: an existing name keeps its place
WithEntry(db, name, data) ==
    IF \E i \in 1..Len(db) : db[i].name = name
    THEN [i \in 1..Len(db) |-> IF db[i].name = name
                               THEN [name |-> name, data |-> data] ELSE db[i]]
    ELSE Append(db, [name |-> name, data |-> data])

\* the entry add_to_database stores: the wavenumbers, the processed
\* intensities, the metadata of the dialog, the wavenumbers of the peaks
CurrentEntry(self) ==
    [wavenumbers |-> self.current_wavenumbers.value,
     intensities |-> self.processed_intensities.value,
     metadata |-> NoMetadata,
     peaks |-> IF ~self.detected_peaks.is_none /\ Len(self.detected_peaks.value) > 0
               THEN [kind |-> "list",
                     items |-> [i \in 1..Len(self.detected_peaks.value) |->
                                   self.current_wavenumbers.value[
                                       self.detected_peaks.value[i] + 1]],
                     nones |-> {}]
               ELSE NoPeaks("None")]

\* RamanAnalysisAppQt6.add_to_database with the dialog accepted: the database
\* after the handler
add_spectrum_to_database(self, db, name) ==
    IF self.current_wavenumbers.is_none \/ self.current_intensities.is_none
    THEN db
    ELSE WithEntry(db, name, CurrentEntry(self))

\* perform_advanced_search reaches the processEvents call that follows
\* apply_metadata_filters
ReachesProcessEvents(self, db, widgets) == ~EndsBeforeScoring(self, db, widgets)

-----------------------------------------------------------------------------
(***************************************************************************)
(* SpecEvents: an advanced search and the clicks on "Add to Database" that  *)
(* the event loop dispatches before it, after it, and inside its           *)
(* processEvents call.                                                     *)
(***************************************************************************)

\* the most clicks on "Add to Database"
MaxWrites == 2

\* the most entries of the database before the first click
MaxEventsDb == 2

\* the names typed into the dialog: one the database may hold, a new one
AddNames == {Txt_Albite, Txt_Zircon}

InitEvents ==
    /\ InitSearch
    /\ ~current_wavenumbers.is_none
    /\ database # <<>>
    /\ Len(database) <= MaxEventsDb

\* adv_search_btn.clicked: perform_advanced_search filters the database and
\* stops in processEvents with the candidates in hand, or ends before that
AdvancedSearchStops ==
    /\ search_call.pc = "idle"
    /\ \E widgets \in SearchWidgets, algorithm \in AlgorithmValues,
          n_matches \in {2}, threshold \in {0, 90} :
          IF ReachesProcessEvents(Self, database, widgets)
          THEN /\ search_call' = [search_call EXCEPT
                      !.pc = "advanced search in processEvents",
                      !.widgets = widgets,
                      !.candidates = apply_metadata_filters(
                                         database, parse_advanced_filters(widgets)),
                      !.algorithm = algorithm, !.n_matches = n_matches,
                      !.threshold = threshold]
               /\ UNCHANGED search_results
          ELSE /\ search_call' = [search_call EXCEPT !.pc = "done"]
               /\ search_results' = EarlyResult(Self, database, widgets, algorithm,
                                                 n_matches, threshold)
    /\ UNCHANGED <<filter_vars, app_vars, database, fastdtw_available, legacy_vars,
                   import_worker>>

\* processEvents returns: the candidates filtered before it are scored and the
\* matches displayed
AdvancedSearchResumes ==
    /\ search_call.pc = "advanced search in processEvents"
    /\ search_call' = [search_call EXCEPT !.pc = "done"]
    /\ search_results' = ScoreCandidates(Self,
                             parse_advanced_filters(search_call.widgets),
                             search_call.candidates, search_call.algorithm,
                             search_call.n_matches, search_call.threshold)
    /\ UNCHANGED <<filter_vars, app_vars, database, fastdtw_available, legacy_vars,
                   import_worker>>

\* add_db_btn.clicked, dispatched by the event loop: between handlers or from
\* the processEvents call of a search
AddToDatabaseClicked ==
    /\ search_call.writes < MaxWrites
    /\ \E name \in AddNames :
          database' = add_spectrum_to_database(Self, database, name)
    /\ search_call' = [search_call EXCEPT !.writes = @ + 1]
    /\ UNCHANGED <<filter_vars, app_vars, search_results, fastdtw_available,
                   legacy_vars, import_worker>>

NextEvents ==
    \/ AdvancedSearchStops
    \/ AdvancedSearchResumes
    \/ AddToDatabaseClicked

SpecEvents == InitEvents /\ [][NextEvents]_vars

-----------------------------------------------------------------------------
(***************************************************************************)
(* RamanMapImportWorker.  run() executes on the worker thread, cancel() on *)
(* the GUI thread; the attribute cancelled is the only thing they share.   *)
(* What run() still has to do is a sequence of steps: "emit" is a call of  *)
(* emit_status or emit_progress (or the guarded emit of finished or error  *)
(* in run), "check" one of the tests "if self.cancelled: return None" of   *)
(* the parser, "raise" an exception raised by the parser.  A map file is   *)
(* [lines, header_columns, grid]: its number of lines, the columns of its  *)
(* first line, whether its positions span more than one x and one y.       *)
(***************************************************************************)

EmitStep(signal) == [op |-> "emit", signal |-> signal]

CheckStep == [op |-> "check", signal |-> ""]

RaiseStep == [op |-> "raise", signal |-> ""]

\* emit_status(...) followed by emit_progress(...)
StatusAndProgress == <<EmitStep("status_update"), EmitStep("progress")>>

\* update_frequency of the loop over the data lines
UpdateFrequency(total_lines) ==
    IF total_lines > 10000 THEN 1000 ELSE Larger(100, total_lines \div 100)

\* the loop over the data lines i..total_lines: the test of cancelled, and
\* the progress report on every update_frequency-th line
RECURSIVE LineSteps(_, _)
LineSteps(i, total_lines) ==
    IF i > total_lines THEN <<>>
    ELSE <<CheckStep>>
         \o (IF i % UpdateFrequency(total_lines) = 0
             THEN <<EmitStep("progress"), EmitStep("status_update")>> ELSE <<>>)
         \o LineSteps(i + 1, total_lines)

\* the interpolation loop over the wavenumbers i..n-1
RECURSIVE GridSteps(_, _)
GridSteps(i, n) ==
    IF i >= n THEN <<>>
    ELSE <<CheckStep>>
         \o (IF i % Larger(1, n \div 10) = 0
             THEN <<EmitStep("progress"), EmitStep("status_update")>> ELSE <<>>)
         \o GridSteps(i + 1, n)

\* parse_raman_spectral_map_static on the file, up to its return
ParseSteps(file) ==
    <<EmitStep("status_update")>>
    \o (IF file.lines < 2 THEN <<RaiseStep>>
        ELSE StatusAndProgress
             \o (IF file.header_columns < 3 THEN <<RaiseStep>>
                 ELSE <<EmitStep("status_update")>>
                      \o LineSteps(1, file.lines - 1)
                      \o <<CheckStep>>
                      \o StatusAndProgress \o StatusAndProgress
                      \o <<CheckStep>>
                      \o (IF file.grid
                          THEN StatusAndProgress \o GridSteps(0, file.header_columns - 2)
                          ELSE <<>>)
                      \o <<CheckStep>>
                      \o StatusAndProgress))

\* run(): the parser, then the guarded finished.emit(map_data)
RunSteps(file) == ParseSteps(file) \o <<EmitStep("finished")>>

\* cancel()
cancel(worker) ==
    [worker EXCEPT !.cancelled = TRUE, !.signals_at_cancel = Len(worker.signals)]

\* "if not self.cancelled:" of emit_status, emit_progress and run: the flag is
\* read; the emit is the next thing the thread does, or is skipped
TestBeforeEmit(worker) ==
    IF worker.cancelled
    THEN [worker EXCEPT !.todo = Tail(@)]
    ELSE [worker EXCEPT !.pc = "emitting"]

\* "if self.cancelled: return None": run goes on with its guarded emit
CheckCancelled(worker) ==
    IF worker.cancelled
    THEN [worker EXCEPT !.todo = <<EmitStep("finished")>>]
    ELSE [worker EXCEPT !.todo = Tail(@)]

\* self.<signal>.emit(...)
Emit(worker) ==
    [worker EXCEPT !.pc = "running", !.signals = Append(@, Head(worker.todo).signal),
                   !.todo = Tail(@)]

\* the parser raises: run goes on with the guarded error.emit in its handler
Raise(worker) == [worker EXCEPT !.todo = <<EmitStep("error")>>]

-----------------------------------------------------------------------------
(***************************************************************************)
(* SpecWorker: one import of a map file.  The steps of the worker thread   *)
(* and the click on Cancel of the GUI thread interleave freely.            *)
(***************************************************************************)

\* the most lines of a map file
MaxMapLines == 4

\* a file without data line, with a header too short, and well-formed files
\* up to MaxMapLines lines with two Raman shifts, on a grid or not, every data
\* line of which is valid
MapFiles ==
    {[lines |-> 1, header_columns |-> 4, grid |-> FALSE],
     [lines |-> 3, header_columns |-> 2, grid |-> FALSE]}
    \cup {[lines |-> n, header_columns |-> 4, grid |-> g] :
             n \in 2..MaxMapLines, g \in BOOLEAN}

InitWorker ==
    /\ InitApp
    /\ FilterIdle
    /\ SearchIdle
    /\ LegacyIdle
    /\ EventsIdle

\* import_raman_spectral_map: the worker is created and started
ImportStarts ==
    /\ import_worker.pc = "not started"
    /\ \E file \in MapFiles :
          import_worker' = [import_worker EXCEPT !.pc = "running",
                                                 !.todo = RunSteps(file)]
    /\ UNCHANGED <<filter_vars, app_vars, search_vars, legacy_vars, search_call>>

\* progress_dialog.canceled: cancel() runs on the GUI thread
Cancel ==
    /\ import_worker.pc \in {"running", "emitting"}
    /\ ~import_worker.cancelled
    /\ import_worker' = cancel(import_worker)
    /\ UNCHANGED <<filter_vars, app_vars, search_vars, legacy_vars, search_call>>

WorkerTestsBeforeEmit ==
    /\ import_worker.pc = "running"
    /\ import_worker.todo # <<>>
    /\ Head(import_worker.todo).op = "emit"
    /\ import_worker' = TestBeforeEmit(import_worker)
    /\ UNCHANGED <<filter_vars, app_vars, search_vars, legacy_vars, search_call>>

WorkerEmits ==
    /\ import_worker.pc = "emitting"
    /\ import_worker' = Emit(import_worker)
    /\ UNCHANGED <<filter_vars, app_vars, search_vars, legacy_vars, search_call>>

WorkerChecksCancelled ==
    /\ import_worker.pc = "running"
    /\ import_worker.todo # <<>>
    /\ Head(import_worker.todo).op = "check"
    /\ import_worker' = CheckCancelled(import_worker)
    /\ UNCHANGED <<filter_vars, app_vars, search_vars, legacy_vars, search_call>>

WorkerRaises ==
    /\ import_worker.pc = "running"
    /\ import_worker.todo # <<>>
    /\ Head(import_worker.todo).op = "raise"
    /\ import_worker' = Raise(import_worker)
    /\ UNCHANGED <<filter_vars, app_vars, search_vars, legacy_vars, search_call>>

\* run() returns
WorkerReturns ==
    /\ import_worker.pc = "running"
    /\ import_worker.todo = <<>>
    /\ import_worker' = [import_worker EXCEPT !.pc = "returned"]
    /\ UNCHANGED <<filter_vars, app_vars, search_vars, legacy_vars, search_call>>

NextWorker ==
    \/ ImportStarts
    \/ Cancel
    \/ WorkerTestsBeforeEmit
    \/ WorkerEmits
    \/ WorkerChecksCancelled
    \/ WorkerRaises
    \/ WorkerReturns

SpecWorker == InitWorker /\ [][NextWorker]_vars

-----------------------------------------------------------------------------
(***************************************************************************)
(* SpecLegacy: the legacy class RamanSpectra.  One call of baseline_als,    *)
(* of search_match or of match_mineral_name with the arguments drawn in    *)
(* Init, or a session of imports, add_to_database and remove_from_database *)
(* calls on one object.                                                    *)
(***************************************************************************)

\* the most entries of the legacy database
MaxLegacyDb == 2

Txt_Flat == <<"F","l","a","t">>

\* the spectra baseline_als is called on
AlsSpectra == {File5.intensities, File3.intensities, <<30, 30, 30, 30>>}

\* lam: negative, zero, the default
AlsLamValues == {0 - 100000, 0, 100000}

\* p in thousandths: the default 0.01, and 0.05
AlsPValues == {10, 50}

\* niter: negative, zero, one, the default
AlsNiterValues == {0 - 1, 0, 1, 10}

LegacyEntry(wn, int, pk) == [wavenumbers |-> wn, intensities |-> int, peaks |-> pk]

\* the spectrum of File5 with its peaks, its mirror image, a spectrum on
\* another grid, a constant spectrum
LegacyItems ==
    {[name |-> Txt_Albite,
      data |-> LegacyEntry(File5.wavenumbers, File5.intensities, Some({200, 400}))],
     [name |-> Txt_Calcite,
      data |-> LegacyEntry(File5.wavenumbers, <<80, 40, 70, 10, 50>>, None)],
     [name |-> Txt_Quartz,
      data |-> LegacyEntry(<<100, 300, 500>>, <<10, 20, 40>>, Some({300}))],
     [name |-> Txt_Flat,
      data |-> LegacyEntry(File5.wavenumbers, <<50, 50, 50, 50, 50>>, None)]}

LegacyDatabases ==
    {db \in SeqsUpTo(LegacyItems, MaxLegacyDb) :
        \A i, j \in 1..Len(db) : i # j => db[i].name # db[j].name}

\* the object before the search: nothing imported, File5 imported, File5
\* imported and find_spectrum_peaks called
LegacyQueries ==
    {[current_wavenumbers |-> None, current_spectra |-> None,
      processed_spectra |-> None, peaks |-> None],
     [current_wavenumbers |-> Some(File5.wavenumbers),
      current_spectra |-> Some(File5.intensities),
      processed_spectra |-> None, peaks |-> None],
     [current_wavenumbers |-> Some(File5.wavenumbers),
      current_spectra |-> Some(File5.intensities),
      processed_spectra |-> None, peaks |-> Some({200, 400})]}

\* n_matches: 1 and the default
LegacyNMatchesValues == {1, 5}

\* correlation_threshold in hundredths: -1.0, 0.0, the default 0.7
LegacyThresholdValues == {0 - 100, 0, 70}

\* the most rows of the classification table
MaxRows == 2

\* the most calls in a session of database writes
MaxStoreCalls == 3

Txt_Zincite == <<"Z","i","n","c","i","t","e">>
Txt_zincite == <<"z","i","n","c","i","t","e">>
Txt_Hydrozincite == <<"H","y","d","r","o","z","i","n","c","i","t","e">>
Txt_hydrozincite_type == <<"h","y","d","r","o","z","i","n","c","i","t","e","-","t","y","p","e">>
Txt_Quartz_type == <<"Q","u","a","r","t","z","-","t","y","p","e">>
Txt_quartz == <<"q","u","a","r","t","z">>
Txt_Quarts == <<"Q","u","a","r","t","s">>
Txt_ite == <<"i","t","e">>
Txt_QuestionMark == <<"?">>
Txt_Oxides == <<"O","x","i","d","e","s">>
Txt_Carbonates == <<"C","a","r","b","o","n","a","t","e","s">>
Txt_Silicates == <<"S","i","l","i","c","a","t","e","s">>
Txt_Unclassified == <<"U","n","c","l","a","s","s","i","f","i","e","d">>

\* rows of the classification table: two minerals whose names clean to the
\* same form, two more minerals, a placeholder name without a letter
TaxonomyRows ==
    {[name |-> Txt_Zincite, classification |-> Txt_Oxides],
     [name |-> Txt_Hydrozincite, classification |-> Txt_Carbonates],
     [name |-> Txt_Quartz, classification |-> Txt_Silicates],
     [name |-> Txt_Albite, classification |-> Txt_Silicates],
     [name |-> Txt_QuestionMark, classification |-> Txt_Unclassified]}

\* the tables loaded: up to MaxRows different rows in any order
TaxonomyTables ==
    {rows \in SeqsUpTo(TaxonomyRows, MaxRows) :
        \A i, j \in 1..Len(rows) : i # j => rows[i] # rows[j]}

\* the names resolved: keys, cleaned keys, variants, a part of a key, a
\* misspelling, an unknown mineral, the placeholder, the empty name
ResolvedNames ==
    {Txt_Zincite, Txt_zincite, Txt_Hydrozincite, Txt_hydrozincite_type,
     Txt_Quartz_type, Txt_quartz, Txt_Quarts, Txt_ite, Txt_Rutile,
     Txt_QuestionMark, <<>>}

\* threshold in hundredths: the default 0.8, and 0.6
ResolverThresholdValues == {80, 60}

\* the names entries are stored and removed under
StoreNames == {Txt_Albite, Txt_Quartz}

\* the spectra imported before add_to_database
StoreFiles == {File5, File3}

BaselineAlsCalled ==
    \E y \in AlsSpectra, lam \in AlsLamValues, p \in AlsPValues,
       niter \in AlsNiterValues :
        als_call = [y |-> y, lam |-> lam, p |-> p, niter |-> niter,
                    pc |-> "called", raised |-> "", baseline |-> <<>>]

SearchMatchCalled ==
    \E query \in LegacyQueries, db \in LegacyDatabases,
       n_matches \in LegacyNMatchesValues,
       correlation_threshold \in LegacyThresholdValues :
        legacy_search = [current_wavenumbers |-> query.current_wavenumbers,
                         current_spectra |-> query.current_spectra,
                         processed_spectra |-> query.processed_spectra,
                         peaks |-> query.peaks, database |-> db,
                         n_matches |-> n_matches,
                         correlation_threshold |-> correlation_threshold,
                         pc |-> "called", raised |-> "", matches |-> <<>>]

MatchMineralNameCalled ==
    \E rows \in TaxonomyTables, mineral_name \in ResolvedNames,
       threshold \in ResolverThresholdValues :
        resolver_call = [hey_classification |-> load_hey_classification(rows),
                         mineral_name |-> mineral_name, threshold |-> threshold,
                         pc |-> "called", result |-> NoMatch]

\* a new object: nothing imported, the database as loaded from disk
StoreOpened ==
    \E db \in LegacyDatabases :
        legacy_store = [current_wavenumbers |-> None, current_spectra |-> None,
                        database |-> [i \in 1..Len(db) |->
                                         [key |-> db[i].name,
                                          value |-> [wavenumbers |-> db[i].data.wavenumbers,
                                                     intensities |-> db[i].data.intensities]]],
                        pc |-> "open", last_call |-> "", name |-> <<>>,
                        returned |-> FALSE, calls |-> 0]

InitLegacy ==
    /\ InitApp
    /\ FilterIdle
    /\ SearchIdle
    /\ EventsIdle
    /\ \/ BaselineAlsCalled /\ SearchMatchIdle /\ ResolverIdle /\ StoreIdle
       \/ AlsIdle /\ SearchMatchCalled /\ ResolverIdle /\ StoreIdle
       \/ AlsIdle /\ SearchMatchIdle /\ MatchMineralNameCalled /\ StoreIdle
       \/ AlsIdle /\ SearchMatchIdle /\ ResolverIdle /\ StoreOpened

\* the call of baseline_als returns or raises
BaselineAlsReturns ==
    /\ als_call.pc = "called"
    /\ als_call' = [als_call EXCEPT
           !.pc = "done",
           !.raised = baseline_als_call(als_call.y, als_call.lam, als_call.p,
                                        als_call.niter).raised,
           !.baseline = baseline_als_call(als_call.y, als_call.lam, als_call.p,
                                          als_call.niter).baseline]
    /\ UNCHANGED <<filter_vars, app_vars, search_vars, legacy_search,
                   resolver_call, legacy_store, event_vars>>

\* the call of search_match returns or raises
SearchMatchReturns ==
    /\ legacy_search.pc = "called"
    /\ legacy_search' = [legacy_search EXCEPT
           !.pc = "done",
           !.raised = search_match(legacy_search, legacy_search.n_matches,
                                   legacy_search.correlation_threshold).raised,
           !.matches = search_match(legacy_search, legacy_search.n_matches,
                                    legacy_search.correlation_threshold).matches]
    /\ UNCHANGED <<filter_vars, app_vars, search_vars, als_call, resolver_call,
                   legacy_store, event_vars>>

\* the call of match_mineral_name returns
MatchMineralNameReturns ==
    /\ resolver_call.pc = "called"
    /\ resolver_call' = [resolver_call EXCEPT
           !.pc = "done",
           !.result = match_mineral_name(resolver_call.hey_classification,
                                         resolver_call.mineral_name,
                                         resolver_call.threshold)]
    /\ UNCHANGED <<filter_vars, app_vars, search_vars, als_call, legacy_search,
                   legacy_store, event_vars>>

\* import_spectrum: a spectrum becomes the current one
LegacyImportSpectrum ==
    /\ legacy_store.pc = "open"
    /\ legacy_store.calls < MaxStoreCalls
    /\ \E file \in StoreFiles :
           legacy_store' = [legacy_store EXCEPT
               !.current_wavenumbers = Some(file.wavenumbers),
               !.current_spectra = Some(file.intensities),
               !.last_call = "import_spectrum", !.name = <<>>,
               !.returned = FALSE, !.calls = @ + 1]
    /\ UNCHANGED <<filter_vars, app_vars, search_vars, als_call, legacy_search,
                   resolver_call, event_vars>>

AddToDatabase ==
    /\ legacy_store.pc = "open"
    /\ legacy_store.calls < MaxStoreCalls
    /\ \E name \in StoreNames :
           legacy_store' = [add_to_database(legacy_store, name).self EXCEPT
               !.last_call = "add_to_database", !.name = name,
               !.returned = add_to_database(legacy_store, name).returned,
               !.calls = @ + 1]
    /\ UNCHANGED <<filter_vars, app_vars, search_vars, als_call, legacy_search,
                   resolver_call, event_vars>>

RemoveFromDatabase ==
    /\ legacy_store.pc = "open"
    /\ legacy_store.calls < MaxStoreCalls
    /\ \E name \in StoreNames :
           legacy_store' = [remove_from_database(legacy_store, name).self EXCEPT
               !.last_call = "remove_from_database", !.name = name,
               !.returned = remove_from_database(legacy_store, name).returned,
               !.calls = @ + 1]
    /\ UNCHANGED <<filter_vars, app_vars, search_vars, als_call, legacy_search,
                   resolver_call, event_vars>>

NextLegacy ==
    \/ BaselineAlsReturns
    \/ SearchMatchReturns
    \/ MatchMineralNameReturns
    \/ LegacyImportSpectrum
    \/ AddToDatabase
    \/ RemoveFromDatabase

SpecLegacy == InitLegacy /\ [][NextLegacy]_vars

-----------------------------------------------------------------------------
(***************************************************************************)
(* Properties of the MetadataFilter (checked under SpecFilter).            *)
(***************************************************************************)

\* the filters a filter set holds (the tolerance belongs to the peak filter)
PresentFilters(filters) == filters.keys \ {"peak_tolerance"}

\* the filter set holding filter k alone
OnlyFilter(filters, k) ==
    [filters EXCEPT !.keys =
        IF k = "peak_positions"
        THEN filters.keys \cap {"peak_positions", "peak_tolerance"}
        ELSE {k}]

\* the entry has no usable peak data
NoUsablePeakData(data) ==
    \/ data.peaks.kind \in {"missing", "None", "dict_no_wavenumbers"}
    \/ data.peaks.kind \in {"list", "dict_array", "dict_list"} /\ data.peaks.items = <<>>

\* the peak data is an explicit list of peak wavenumbers (Raman shifts, not
\* the small numbers of an index list)
IsWavenumberList(pk) ==
    /\ pk.kind \in {"list", "dict_array"}
    /\ pk.nones = {}
    /\ Len(pk.items) > 0
    /\ \A i \in 1..Len(pk.items) : pk.items[i] >= 40

\* the peak data is a list holding at least one index into the entry's own
\* wavenumber array
IsIndexList(data) ==
    /\ data.peaks.kind = "list"
    /\ \E i \in 1..Len(data.peaks.items) :
          /\ i \notin data.peaks.nones
          /\ 0 <= data.peaks.items[i]
          /\ data.peaks.items[i] < Len(data.wavenumbers)

PeakFilterAlone(filters) == filters.keys = {"peak_positions", "peak_tolerance"}

\* C5: spectrum_passes_filters returns True exactly when every filter the
\* filter set holds passes on its own (the filters are AND-combined, a filter
\* that is absent has no effect, and the empty filter set passes every entry).
C5_FiltersAreAndCombined ==
    f_pc = "done" =>
        (f_result <=>
            \A k \in PresentFilters(f_filters) :
                spectrum_passes_filters(f_name, f_data, OnlyFilter(f_filters, k)))

\* C5 witness: a call with three filters present of which one fails alone.
C5_Witness ==
    /\ f_pc = "done"
    /\ Cardinality(PresentFilters(f_filters)) >= 3
    /\ ~f_result
    /\ Cardinality({k \in PresentFilters(f_filters) :
           ~spectrum_passes_filters(f_name, f_data, OnlyFilter(f_filters, k))}) = 1

\* C6: for an entry whose peak data is an explicit list of peak wavenumbers
\* the peak filter passes exactly when every required wavenumber has a
\* listed peak within the tolerance, whatever the listed values and the
\* number of points of the entry's spectrum.
C6_WavenumberListMatchedAsListed ==
    (f_pc = "done" /\ PeakFilterAlone(f_filters) /\ IsWavenumberList(f_data.peaks)) =>
        (f_result <=> AllRequiredPeaksFound(f_data.peaks.items,
                          f_filters.peak_positions, f_filters.peak_tolerance))

\* C7: for a legacy index list the peak filter compares the required
\* positions with exactly the wavenumbers of the in-range indices; an
\* out-of-range index is skipped and changes nothing else.
C7_OutOfRangeIndexSkipped ==
    (f_pc = "done" /\ PeakFilterAlone(f_filters) /\ IsIndexList(f_data)) =>
        (f_result <=> AllRequiredPeaksFound(
                          IndicesToWavenumbers(f_data.peaks, f_data.wavenumbers, 1),
                          f_filters.peak_positions, f_filters.peak_tolerance))

\* C8: an entry with no usable peak data fails every filter set that holds a
\* non-empty peak_positions filter, whatever its other filters and tolerance.
C8_NoPeakDataFailsPeakFilter ==
    (/\ f_pc = "done"
     /\ "peak_positions" \in f_filters.keys
     /\ Len(f_filters.peak_positions) > 0
     /\ NoUsablePeakData(f_data)) => ~f_result

\* C8 witness: such an entry was filtered with a peak filter and a chemical
\* family filter that it satisfies.
C8_Witness ==
    /\ f_pc = "done"
    /\ NoUsablePeakData(f_data)
    /\ f_data.peaks.kind = "dict_array"
    /\ "peak_positions" \in f_filters.keys
    /\ "chemical_family" \in f_filters.keys
    /\ ChemicalFamilyFilterPasses(f_data.metadata, f_filters)
    /\ ~f_result

\* the value of a metadata field stored under any of its historical keys
FieldUnderAnyKey(metadata, keys) ==
    LET held == {k \in keys : metadata[k] # <<>>}
    IN  IF held = {} THEN <<>> ELSE metadata[CHOOSE k \in held : TRUE]

\* the entry stores the field under at most one of the keys
StoredOnce(metadata, keys) == Cardinality({k \in keys : metadata[k] # <<>>}) <= 1

FamilyKeys == {"CHEMICAL FAMILY", "Chemical Family", "CHEMICAL_FAMILY"}

HeyKeys == {"HEY CLASSIFICATION", "HEY_CLASSIFICATION"}

\* C9: the chemical_family and hey_classification filters pass exactly when
\* the filter text is a case-insensitive substring of the entry's value,
\* whether the entry stores it under the space-delimited or under the
\* underscore-delimited key.
C9_FamilyAndHeyUnderBothKeyVariants ==
    /\ (f_pc = "done" /\ f_filters.keys = {"chemical_family"}
            /\ StoredOnce(f_data.metadata, FamilyKeys)) =>
          (f_result <=>
              LET v == FieldUnderAnyKey(f_data.metadata, FamilyKeys)
              IN  v # <<>> /\ StrContains(lower(f_filters.chemical_family), lower(v)))
    /\ (f_pc = "done" /\ f_filters.keys = {"hey_classification"}
            /\ StoredOnce(f_data.metadata, HeyKeys)) =>
          (f_result <=>
              LET v == FieldUnderAnyKey(f_data.metadata, HeyKeys)
              IN  v # <<>> /\ StrContains(lower(f_filters.hey_classification), lower(v)))

\* the entry has element data (a chemistry-elements field or a formula)
HasElementData(data) == ElementsSource(data.metadata) # <<>>

\* C10: for an entry with element set E, only_elements with allowed set A
\* passes iff E is a subset of A, required_elements with set R passes iff R
\* is a subset of E, and exclude_elements with set X passes iff E and X are
\* disjoint.
C10_ElementFiltersAreSetRelations ==
    (f_pc = "done" /\ HasElementData(f_data)) =>
        LET E == ElementsInSpectrum(f_data.metadata)
        IN  /\ f_filters.keys = {"only_elements"} =>
                (f_result <=> E \subseteq SeqToSet(f_filters.only_elements))
            /\ f_filters.keys = {"required_elements"} =>
                (f_result <=> SeqToSet(f_filters.required_elements) \subseteq E)
            /\ f_filters.keys = {"exclude_elements"} =>
                (f_result <=> E \cap SeqToSet(f_filters.exclude_elements) = {})

\* C10 witness: an entry listing Si and O passed required_elements = [SI].
C10_Witness ==
    /\ f_pc = "done"
    /\ f_filters.keys = {"required_elements"}
    /\ f_filters.required_elements = <<<<"S","I">>>>
    /\ ElementsInSpectrum(f_data.metadata) = {<<"S","I">>, <<"O">>}
    /\ f_result

\* str.join(", ") of the element tokens
RECURSIVE JoinElements(_)
JoinElements(tokens) ==
    IF tokens = <<>> THEN <<>>
    ELSE IF Len(tokens) = 1 THEN tokens[1]
    ELSE tokens[1] \o <<",", " ">> \o JoinElements(Tail(tokens))

\* the entry that lists, in its chemistry-elements field, the element set
\* the formula of data yields
ListedElementsEntry(data) ==
    [data EXCEPT !.metadata["CHEMISTRY ELEMENTS"] =
                     JoinElements(FindElementTokens(Formula(data.metadata)))]

\* C11: with filters built by parse_advanced_filters, an entry that has no
\* chemistry-elements field and whose formula yields the element set E gets
\* the same verdict as the entry whose chemistry-elements field lists E.
C11_ElementVerdictIndependentOfSource ==
    (/\ f_pc = "done"
     /\ ChemistryElements(f_data.metadata) = <<>>
     /\ Formula(f_data.metadata) # <<>>
     /\ f_filters.keys \cap ElementFilterKeys # {})
    => (f_result <=>
            spectrum_passes_filters(f_name, ListedElementsEntry(f_data), f_filters))

\* the filter set requires and excludes one same element
RequiresAndExcludesSame(filters) ==
    /\ {"required_elements", "exclude_elements"} \subseteq filters.keys
    /\ SeqToSet(filters.required_elements)
           \cap SeqToSet(filters.exclude_elements) # {}

\* C12: a filter set whose required_elements and exclude_elements share an
\* element fails every entry, whatever its metadata, element data and peaks.
C12_RequiredAndExcludedNeverPasses ==
    (f_pc = "done" /\ RequiresAndExcludesSame(f_filters)) => ~f_result

\* C12 witness: an entry listing Si and O, which holds the required element
\* and passes every other filter of the set, was rejected by a filter set
\* that requires and excludes SI.
C12_Witness ==
    /\ f_pc = "done"
    /\ RequiresAndExcludesSame(f_filters)
    /\ f_filters.keys = {"required_elements", "exclude_elements"}
    /\ ElementsInSpectrum(f_data.metadata) = {<<"S","I">>, <<"O">>}
    /\ SeqToSet(f_filters.required_elements) \subseteq ElementsInSpectrum(f_data.metadata)
    /\ ~f_result

-----------------------------------------------------------------------------
(***************************************************************************)
(* Properties of the PeakSet (checked under Spec).                         *)
(***************************************************************************)

\* the handlers that write processed_intensities of a loaded spectrum
ProcessingHandlers ==
    {"apply_background_subtraction", "apply_smoothing", "reset_spectrum"}

\* C1: whenever apply_background_subtraction (with subtract_background),
\* apply_smoothing or reset_spectrum changes the processed intensities, the
\* stored peaks are cleared or are the peaks detected in the new
\* intensities, so that a non-empty stored peak set was always computed from
\* the processed intensities currently held.
C1_PeaksInvalidatedWhenIntensitiesChange ==
    [][(/\ last_handler' \in ProcessingHandlers
        /\ processed_intensities' # processed_intensities)
       => \/ detected_peaks'.is_none
          \/ detected_peaks'.value = <<>>
          \/ detected_peaks'.value =
                 find_peaks(processed_intensities'.value, height_slider',
                            distance_slider', prominence_slider')]_vars

\* C2: whenever load_spectrum_file stores a new spectrum, detected_peaks
\* holds no index computed from the spectrum loaded before it, so that the
\* indices update_plot and calculate_peak_score use are indices of peaks of
\* the current spectrum.
C2_NoPeakIndicesFromPreviousSpectrum ==
    [][(/\ last_handler' = "load_spectrum_file"
        /\ <<current_wavenumbers, current_intensities>>' #
               <<current_wavenumbers, current_intensities>>)
       => \/ detected_peaks'.is_none
          \/ detected_peaks'.value = <<>>]_vars

-----------------------------------------------------------------------------
(***************************************************************************)
(* Properties of the SearchEngine (checked under SpecSearch).              *)
(***************************************************************************)

PeakOnlyTitle == "Advanced Search (Peak-Only Search)"

\* the database entry of a name
EntryOf(name) ==
    database[CHOOSE i \in 1..Len(database) : database[i].name = name].data

\* every displayed match carries the score the selected algorithm gives
\* its entry, and that score reaches the threshold
MatchesAreScored(results) ==
    \A k \in 1..Len(results.matches) :
        /\ results.matches[k].score =
               CandidateScore(Self, EntryOf(results.matches[k].name), results.algorithm)
        /\ results.matches[k].score >= results.threshold

\* every displayed match has the fixed score 1.0
MatchesBypassScoring(results) ==
    \A k \in 1..Len(results.matches) : results.matches[k].score = ScoreOne

\* C3 (as stated): a displayed advanced search ran in peak-only mode exactly
\* when peak_positions was the only filter set; with any other filter set
\* the matches were scored with the selected algorithm and the threshold
\* was applied.
C3_PeakOnlyExactlyWhenOnlyFilter ==
    search_results.outcome = "displayed" =>
        IF PeakFilterAlone(search_results.filters)
        THEN /\ search_results.search_type = PeakOnlyTitle
             /\ MatchesBypassScoring(search_results)
        ELSE /\ search_results.search_type # PeakOnlyTitle
             /\ MatchesAreScored(search_results)

\* C3 (amended): a displayed advanced search ran in peak-only mode exactly
\* when a peak_positions filter was set, whatever other filters were set
\* with it; without a peak_positions filter the matches were scored with
\* the selected algorithm and the threshold was applied.
C3_PeakOnlyWheneverPeakFilterSet ==
    search_results.outcome = "displayed" =>
        IF "peak_positions" \in search_results.filters.keys
        THEN /\ search_results.search_type = PeakOnlyTitle
             /\ MatchesBypassScoring(search_results)
        ELSE /\ search_results.search_type # PeakOnlyTitle
             /\ MatchesAreScored(search_results)

\* C3 witness: a search with a peak filter and a chemical family filter ran
\* in peak-only mode and displayed a match that the selected algorithm
\* scores below the threshold.
C3_Witness ==
    /\ search_results.outcome = "displayed"
    /\ {"peak_positions", "chemical_family"} \subseteq search_results.filters.keys
    /\ search_results.search_type = PeakOnlyTitle
    /\ \E k \in 1..Len(search_results.matches) :
          /\ search_results.matches[k].score = ScoreOne
          /\ CandidateScore(Self, EntryOf(search_results.matches[k].name),
                            search_results.algorithm) < search_results.threshold

\* the names of the entries that pass the filters, in ascending order
QualifyingNames(filters) ==
    LET passing == apply_metadata_filters(database, filters)
        sorted  == SortByName([i \in 1..Len(passing) |->
                       [name |-> passing[i].name, score |-> ScoreOne]])
    IN  [i \in 1..Len(sorted) |-> sorted[i].name]

\* C4: a peak-only search displays every entry that passes the
\* peak_positions filter exactly once, with score 1.0, in ascending order of
\* name, and no other entry, whatever the size of the database and the
\* value of n_matches.
C4_PeakOnlyReturnsAllQualifying ==
    (/\ search_results.outcome = "displayed"
     /\ PeakFilterAlone(search_results.filters)) =>
        /\ [k \in 1..Len(search_results.matches) |-> search_results.matches[k].name]
               = QualifyingNames(search_results.filters)
        /\ MatchesBypassScoring(search_results)

-----------------------------------------------------------------------------
(***************************************************************************)
(* Properties of the scored searches (checked under SpecScore).            *)
(***************************************************************************)

\* the place of a name in the iteration order of the database
PositionOf(name) == CHOOSE i \in 1..Len(database) : database[i].name = name

\* the names a search returned
ReturnedNames(results) == {results.matches[k].name : k \in 1..Len(results.matches)}

\* a search that scored its candidates and displayed the matches
ScoredSearchDisplayed ==
    /\ search_results.outcome = "displayed"
    /\ search_results.search_type # PeakOnlyTitle

\* C13: a scored search returns at most n_matches matches, each with the
\* score of its entry and that score at least the threshold, in
\* non-increasing order of score with equal scores in the iteration order
\* of the database, and no candidate of the search that was left out reaches
\* the threshold with a score strictly higher than a returned match
C13_ScoredSearchReturnsBestInOrder ==
    ScoredSearchDisplayed =>
        LET matches == search_results.matches
        IN  /\ Len(matches) <= search_results.n_matches
            /\ MatchesAreScored(search_results)
            /\ \A k \in 1..Len(matches), l \in 1..Len(matches) :
                   k < l =>
                       /\ matches[k].score >= matches[l].score
                       /\ matches[k].score = matches[l].score =>
                              PositionOf(matches[k].name) < PositionOf(matches[l].name)
            /\ \A i \in 1..Len(search_results.candidates) :
                   LET name  == search_results.candidates[i]
                       score == CandidateScore(Self, EntryOf(name),
                                               search_results.algorithm)
                   IN  (/\ name \notin ReturnedNames(search_results)
                        /\ score >= search_results.threshold)
                       => \A k \in 1..Len(matches) : score <= matches[k].score

\* two candidates reach the threshold, the one later in the database has the
\* higher score, and the search with n_matches = 1 returned only that one
C13_Witness ==
    /\ ScoredSearchDisplayed
    /\ Len(database) = 2
    /\ search_results.n_matches = 1
    /\ Len(search_results.matches) = 1
    /\ search_results.matches[1].name = database[2].name
    /\ search_results.threshold > 0
    /\ CandidateScore(Self, database[1].data, search_results.algorithm)
           >= search_results.threshold
    /\ CandidateScore(Self, database[1].data, search_results.algorithm)
           < search_results.matches[1].score

\* np.interp raises ValueError inside calculate_correlation_score: the
\* arrays of the query or of the entry differ in length
CorrelationRaises(self, data) ==
    /\ Len(data.wavenumbers) # 0 /\ Len(data.intensities) # 0
    /\ \/ Len(self.current_wavenumbers.value) # Len(self.processed_intensities.value)
       \/ Len(data.wavenumbers) # Len(data.intensities)

\* fancy indexing raises IndexError inside calculate_peak_score
PeakScoreRaises(self, data) ==
    /\ ~self.detected_peaks.is_none /\ Len(self.detected_peaks.value) # 0
    /\ \/ \E k \in 1..Len(self.detected_peaks.value) :
              \/ self.detected_peaks.value[k] >= Len(self.current_wavenumbers.value)
              \/ self.detected_peaks.value[k] >= Len(self.processed_intensities.value)
       \/ /\ Len(data.wavenumbers) # 0 /\ Len(data.intensities) # 0
          /\ \E k \in 1..Len(find_peaks(data.intensities, 10, 1, 0)) :
                 find_peaks(data.intensities, 10, 1, 0)[k] >= Len(data.wavenumbers)

\* np.interp raises ValueError inside calculate_dtw_score, which reaches
\* it when fastdtw was imported and the overlap is wide enough
DtwRaises(self, data) ==
    /\ self.fastdtw
    /\ CorrelationRaises(self, data)
    /\ 10 * (Smaller(Max(self.current_wavenumbers.value), Max(data.wavenumbers))
             - Larger(Min(self.current_wavenumbers.value), Min(data.wavenumbers)))
           >= 3 * Smaller(Max(self.current_wavenumbers.value)
                              - Min(self.current_wavenumbers.value),
                          Max(data.wavenumbers) - Min(data.wavenumbers))

\* an exception is raised while the score of the entry is computed (for
\* 'combined': while its correlation part is computed)
SimilarityRaises(self, data, algorithm) ==
    IF algorithm = "peak" THEN PeakScoreRaises(self, data)
    ELSE IF algorithm = "DTW" /\ self.fastdtw THEN DtwRaises(self, data)
    ELSE CorrelationRaises(self, data)

\* C14 (as stated): a candidate whose similarity computation raises is not
\* among the matches of a displayed search, whatever the threshold
C14_FailedCandidateNeverReturned ==
    ScoredSearchDisplayed =>
        \A k \in 1..Len(search_results.matches) :
            ~SimilarityRaises(Self, EntryOf(search_results.matches[k].name),
                              search_results.algorithm)

\* no peaks of the query have been computed
NoQueryPeaks == detected_peaks.is_none \/ Len(detected_peaks.value) = 0

\* C15 (as stated): a search with the 'peak' algorithm and no query peaks
\* does not go on to score and display: it ends with an error outcome
C15_PeakSearchWithoutPeaksAborts ==
    (search_results.algorithm = "peak" /\ NoQueryPeaks)
        => search_results.outcome # "displayed"

\* the wavenumber ranges of the query and of the entry have an empty or
\* zero-width intersection
NoCommonRange(self, data) ==
    /\ ~self.current_wavenumbers.is_none
    /\ Len(self.current_wavenumbers.value) # 0 /\ Len(data.wavenumbers) # 0
    /\ Larger(Min(self.current_wavenumbers.value), Min(data.wavenumbers))
           >= Smaller(Max(self.current_wavenumbers.value), Max(data.wavenumbers))

\* C16 (as stated): whichever of the four algorithms a search used, a
\* match whose wavenumber range and the range of the query have no common
\* interval has the score 0
C16_NoCommonRangeScoresZero ==
    ScoredSearchDisplayed =>
        \A k \in 1..Len(search_results.matches) :
            NoCommonRange(Self, EntryOf(search_results.matches[k].name))
                => search_results.matches[k].score = 0

\* the score calculate_correlation_score gives a database entry
CorrelationOf(data) == calculate_correlation_score(Self, data.wavenumbers, data.intensities)

\* the score calculate_dtw_score would give the entry with fastdtw installed
RealDtwOf(data) ==
    calculate_dtw_score([Self EXCEPT !.fastdtw = TRUE], data.wavenumbers, data.intensities)

SameSearchWithFastdtw ==
    perform_basic_search([Self EXCEPT !.fastdtw = TRUE], database,
                         search_results.algorithm, search_results.n_matches,
                         search_results.threshold)

\* C19 (as stated): when a 'DTW' or 'combined' search was scored by the
\* correlation fallback and returned matches, what it displays (label,
\* match records) differs from what the search displays when it uses DTW
C19_FallbackIsObservable ==
    (/\ ScoredSearchDisplayed
     /\ ~fastdtw_available
     /\ search_results.algorithm \in {"DTW", "combined"}
     /\ search_results.matches # <<>>)
    => search_results # SameSearchWithFastdtw

-----------------------------------------------------------------------------
(***************************************************************************)
(* Properties of the legacy class RamanSpectra (checked under SpecLegacy). *)
(***************************************************************************)

\* C17 (as stated, for search_match): the combined score of every match
\* that search_match returns lies between 0 and 1
C17_ReturnedCombinedScoreInUnitInterval ==
    legacy_search.pc = "done" =>
        \A k \in 1..Len(legacy_search.matches) :
            /\ legacy_search.matches[k].score >= 0
            /\ legacy_search.matches[k].score <= 100 * ScoreOne

\* C20 (as stated): a call of baseline_als with niter <= 0 or lam <= 0 ends
\* in a validation error (ValueError): no baseline is returned and no other
\* exception is raised
C20_InvalidAlsParametersRejected ==
    (als_call.pc = "done" /\ (als_call.niter <= 0 \/ als_call.lam <= 0))
        => (als_call.raised = "ValueError" /\ als_call.baseline = <<>>)

-----------------------------------------------------------------------------
(***************************************************************************)
(* Properties of the preprocessing handlers (checked under Spec).          *)
(***************************************************************************)

\* the widgets with the background method set to method
WithMethod(method) == [Widgets EXCEPT !.bg_method_combo = method]

\* C21 (as stated): for each of the four methods the baseline estimated for
\* the non-empty spectrum held has as many samples as the spectrum
C21_BaselineHasLengthOfSpectrum ==
    (~processed_intensities.is_none /\ Len(processed_intensities.value) > 0) =>
        \A method \in BgMethods :
            Len(Background(Self, WithMethod(method)))
                = Len(processed_intensities.value)

-----------------------------------------------------------------------------
(***************************************************************************)
(* Properties of the mineral name resolver and of the legacy database      *)
(* writes (checked under SpecLegacy).                                      *)
(***************************************************************************)

\* the call of match_mineral_name has returned
Resolved == resolver_call.pc = "done"

\* C22 (as stated): a name that is itself a key of the taxonomy resolves to
\* that key with its own record, whatever its cleaned form is
C22_KeyResolvesToItself ==
    (Resolved /\ DictHas(resolver_call.hey_classification, resolver_call.mineral_name)) =>
        /\ resolver_call.result.name = Some(resolver_call.mineral_name)
        /\ resolver_call.result.record
               = Some(DictGet(resolver_call.hey_classification,
                              resolver_call.mineral_name))

\* the cleaned form of the name resolved
CleanedName == clean_mineral_name(resolver_call.mineral_name)

\* the similarity ratio of the cleaned name to every key is below the threshold
BelowThresholdOfEveryKey ==
    \A i \in 1..Len(resolver_call.hey_classification) :
        ~RatioReaches(Ratio(CleanedName, lower(resolver_call.hey_classification[i].key)),
                      resolver_call.threshold)

\* the name is no key, its cleaned form is no key and no part of a key
NoKeyAndNoPartOfAKey ==
    /\ ~DictHas(resolver_call.hey_classification, resolver_call.mineral_name)
    /\ ~DictHas(resolver_call.hey_classification, CleanedName)
    /\ SubstringMatch(resolver_call.hey_classification, CleanedName) = 0

\* C23 (as stated): a name whose similarity ratio to every key is below the
\* threshold resolves to (None, None)
C23_BelowThresholdResolvesToNone ==
    (Resolved /\ BelowThresholdOfEveryKey) => resolver_call.result = NoMatch

\* C23 (amended): a name that is no key, whose cleaned form is no key and no
\* part of a lower-cased key, and whose similarity ratio to every key is below
\* the threshold, resolves to (None, None)
C23_UnmatchedBelowThresholdResolvesToNone ==
    (Resolved /\ NoKeyAndNoPartOfAKey /\ BelowThresholdOfEveryKey) =>
        resolver_call.result = NoMatch

\* such a name was resolved against a key it has characters in common with
C23_Witness ==
    /\ Resolved /\ NoKeyAndNoPartOfAKey /\ BelowThresholdOfEveryKey
    /\ \E i \in 1..Len(resolver_call.hey_classification) :
           Ratio(CleanedName, lower(resolver_call.hey_classification[i].key)).num > 0
    /\ resolver_call.result = NoMatch

\* C24 (as stated): with a taxonomy built by load_hey_classification, every
\* name with the same cleaned form as the name resolved resolves to the same
\* classification record
C24_SameCleanedFormSameRecord ==
    Resolved =>
        \A other \in ResolvedNames :
            clean_mineral_name(other) = CleanedName =>
                match_mineral_name(resolver_call.hey_classification, other,
                                   resolver_call.threshold).record
                    = resolver_call.result.record

\* the keys of a dict
DictKeys(d) == {d[i].key : i \in 1..Len(d)}

\* d.get(key)
Lookup(d, key) == IF DictHas(d, key) THEN Some(DictGet(d, key)) ELSE None

\* every key but name has in the database after the call what it had before
OtherKeysUnchanged(before, after, name) ==
    \A key \in (DictKeys(before) \cup DictKeys(after)) \ {name} :
        Lookup(after, key) = Lookup(before, key)

\* a spectrum is loaded in the legacy object
StoreHasSpectrum ==
    ~legacy_store.current_spectra.is_none /\ ~legacy_store.current_wavenumbers.is_none

\* what a step that is a call of add_to_database does
AddToDatabaseAsSpecified ==
    IF StoreHasSpectrum
    THEN /\ legacy_store'.returned = TRUE
         /\ Lookup(legacy_store'.database, legacy_store'.name)
                = Some([wavenumbers |-> legacy_store.current_wavenumbers.value,
                        intensities |-> legacy_store.current_spectra.value])
         /\ OtherKeysUnchanged(legacy_store.database, legacy_store'.database,
                               legacy_store'.name)
    ELSE /\ legacy_store'.returned = FALSE
         /\ legacy_store'.database = legacy_store.database

\* what a step that is a call of remove_from_database does
RemoveFromDatabaseAsSpecified ==
    IF DictHas(legacy_store.database, legacy_store'.name)
    THEN /\ legacy_store'.returned = TRUE
         /\ ~DictHas(legacy_store'.database, legacy_store'.name)
         /\ OtherKeysUnchanged(legacy_store.database, legacy_store'.database,
                               legacy_store'.name)
    ELSE /\ legacy_store'.returned = FALSE
         /\ legacy_store'.database = legacy_store.database

\* C25: add_to_database(name) with a spectrum loaded stores the new entry under
\* name, replacing the old one, and leaves the other keys alone; without a
\* spectrum it returns False and changes nothing; remove_from_database(name)
\* deletes that key alone and returns True, or returns False and changes
\* nothing when the key is absent
C25_DatabaseWritesTouchOneKey ==
    [][(legacy_store'.calls = legacy_store.calls + 1) =>
           /\ legacy_store'.last_call = "add_to_database" => AddToDatabaseAsSpecified
           /\ legacy_store'.last_call = "remove_from_database" =>
                  RemoveFromDatabaseAsSpecified]_vars

\* add_to_database has replaced the entry of Quartz, the first of two entries,
\* by the spectrum of File3
C25_Witness ==
    /\ legacy_store.last_call = "add_to_database"
    /\ legacy_store.returned
    /\ legacy_store.name = Txt_Quartz
    /\ Len(legacy_store.database) = 2
    /\ legacy_store.database[1].key = Txt_Quartz
    /\ legacy_store.database[1].value.wavenumbers = File3.wavenumbers

-----------------------------------------------------------------------------
(***************************************************************************)
(* Properties of the event loop (checked under SpecEvents).                *)
(***************************************************************************)

\* a search has begun and has not displayed its result yet
SearchInProgress == search_call.pc # "idle" /\ search_call.pc # "done"

\* C26 (as stated): no write of the database takes effect while a search is
\* in progress, its processEvents calls included, and every match handed to
\* display_search_results names an entry of the database of that moment
C26_NoWriteDuringSearch ==
    [][/\ SearchInProgress => database' = database
       /\ (SearchInProgress /\ search_call'.pc = "done") =>
              \A i \in 1..Len(search_results'.matches) :
                  \E j \in 1..Len(database') :
                      database'[j].name = search_results'.matches[i].name]_vars

-----------------------------------------------------------------------------
(***************************************************************************)
(* Properties of the previews and of the loaded spectrum (checked under    *)
(* Spec).                                                                  *)
(***************************************************************************)

\* the step is a call of the handler
Handles(handler) == last_handler' = handler /\ handled' = handled + 1

\* the background corrections of the processed intensities held now, for
\* every method and every value of the p slider
CorrectionsOfCurrentData ==
    {BroadcastSub(processed_intensities.value, Background(Self, widgets)) :
        widgets \in {w \in {[Widgets EXCEPT !.bg_method_combo = method, !.p_slider = p] :
                               method \in BgMethods, p \in PSliderValues} :
                        BroadcastLen(processed_intensities.value,
                                     Background(Self, w)) # 0}}

\* the smoothings of the processed intensities held now, for every window
\* and every order
SmoothingsOfCurrentData ==
    {savgol_filter(processed_intensities.value, window, order) :
        window \in {w \in SgWindowValues :
                       ~SavgolRaises(processed_intensities.value, w)},
        order \in SgOrderValues}

\* C27 (as stated): when apply_background_subtraction or apply_smoothing
\* commits an active preview, what it commits is the correction, or the
\* smoothing, of the processed intensities held at that moment
C27_PreviewCommitsCurrentData ==
    [][/\ (/\ Handles("apply_background_subtraction")
           /\ background_preview_active /\ ~preview_corrected.is_none) =>
              processed_intensities'.value \in CorrectionsOfCurrentData
       /\ (/\ Handles("apply_smoothing")
           /\ smoothing_preview_active /\ ~preview_smoothed.is_none) =>
              processed_intensities'.value \in SmoothingsOfCurrentData]_vars

\* C28 (as stated): no processing handler modifies current_intensities, the
\* in-place subtractions included; reset_spectrum makes processed_intensities
\* equal to it again, clears detected_peaks and leaves no preview active
C28_OriginalKeptAndRestoredByReset ==
    [][/\ (handled' = handled + 1 /\ last_handler' # "load_spectrum_file") =>
              current_intensities' = current_intensities
       /\ (Handles("reset_spectrum") /\ ~current_intensities.is_none) =>
              /\ processed_intensities' = current_intensities'
              /\ detected_peaks' = None
              /\ ~background_preview_active'
              /\ ~smoothing_preview_active']_vars

\* the array is set and has the length of the current spectrum
HasLengthOfSpectrum(array) ==
    ~array.is_none /\ Len(array.value) = Len(current_intensities.value)

\* C29 (as stated): an active background preview has preview_background and
\* preview_corrected set with the length of the current spectrum, an active
\* smoothing preview has preview_smoothed set with that length, and after a
\* successful load_spectrum_file no preview is active and the buffers are empty
C29_ActivePreviewHasItsBuffers ==
    /\ background_preview_active =>
           HasLengthOfSpectrum(preview_background) /\ HasLengthOfSpectrum(preview_corrected)
    /\ smoothing_preview_active => HasLengthOfSpectrum(preview_smoothed)
    /\ (last_handler = "load_spectrum_file" /\ last_error = "") =>
           /\ ~background_preview_active /\ ~smoothing_preview_active
           /\ preview_background = None
           /\ preview_corrected = None
           /\ preview_smoothed = None

-----------------------------------------------------------------------------
(***************************************************************************)
(* Properties of the import worker (checked under SpecWorker).             *)
(***************************************************************************)

\* C30 (as stated): once cancel() was called the worker emits no further
\* progress, status_update, finished or error signal
C30_NoSignalAfterCancel ==
    import_worker.cancelled =>
        Len(import_worker.signals) = import_worker.signals_at_cancel

====
